---- MODULE Spec2Model ----
(***************************************************************************)
(* A model of the plan-execute-normalize engine of dobb.ai-backend:        *)
(* src/agents/orchestrator.py together with the provider clients           *)
(* src/services/jira_mcp_client.py and src/services/mcp_client.py and the  *)
(* chat route src/api/chatbot_routes.py.                                   *)
(*                                                                         *)
(* Python str values are TLA+ strings; TLC evaluates Len, SubSeq and \o    *)
(* on them, so substring tests and the regular expressions of the source   *)
(* are computed character by character.                                    *)
(***************************************************************************)
EXTENDS Integers, Sequences, FiniteSets, TLC

-----------------------------------------------------------------------------
(* Characters and strings                                                  *)

UpperChars == "ABCDEFGHIJKLMNOPQRSTUVWXYZ"
LowerChars == "abcdefghijklmnopqrstuvwxyz"
DigitChars == "0123456789"

\* s[i] counted from 1; "" outside the string
CharAt(s, i) == IF i >= 1 /\ i <= Len(s) THEN SubSeq(s, i, i) ELSE ""

CharsOf(s) == {CharAt(s, i) : i \in 1..Len(s)}

UpperSet == CharsOf(UpperChars)
LowerSet == CharsOf(LowerChars)
DigitSet == CharsOf(DigitChars)

\* [a-z0-9_\-] of _extract_keywords, applied to lower-cased text
KeywordCharSet == LowerSet \cup DigitSet \cup {"_", "-"}

\* \w of the re module, restricted to ASCII
WordCharSet == LowerSet \cup UpperSet \cup DigitSet \cup {"_"}

\* [\w.-] of the repo: and github.com/ patterns
RepoCharSet == WordCharSet \cup {".", "-"}

\* [0-9a-f] of the commit-reference pattern
HexCharSet == DigitSet \cup CharsOf("abcdef")

\* \s of the re module and the characters str.strip() removes
SpaceSet == {" ", "\t", "\n", "\r"}

LowerChar(c) ==
    IF c \in UpperSet
    THEN CharAt(LowerChars, CHOOSE i \in 1..26 : CharAt(UpperChars, i) = c)
    ELSE c

\* str.lower(), character by character (the string is halved so that the
\* evaluation stays shallow)
RECURSIVE Lower(_)
Lower(s) ==
    IF Len(s) = 0 THEN ""
    ELSE IF Len(s) = 1 THEN LowerChar(s)
    ELSE Lower(SubSeq(s, 1, Len(s) \div 2)) \o Lower(SubSeq(s, Len(s) \div 2 + 1, Len(s)))

\* the value v under the name that Body gives it: a local variable of the
\* source, assigned once and read several times
With(v, Body(_)) == Body(v)

\* the least and the greatest member of a set of positions, 0 for none
FirstIndex(S) == IF S = {} THEN 0 ELSE CHOOSE i \in S : \A j \in S : i <= j
LastIndex(S) == IF S = {} THEN 0 ELSE CHOOSE i \in S : \A j \in S : i >= j

\* whether pat occurs in s at position i
MatchAt(s, i, pat) ==
    /\ i >= 1
    /\ i + Len(pat) - 1 <= Len(s)
    /\ SubSeq(s, i, i + Len(pat) - 1) = pat

\* Python's `pat in s`
Contains(s, pat) == \E i \in 1..(Len(s) - Len(pat) + 1) : MatchAt(s, i, pat)

\* any(p in s for p in pats)
ContainsAny(s, pats) == \E p \in pats : Contains(s, p)

Min(a, b) == IF a <= b THEN a ELSE b
Max(a, b) == IF a >= b THEN a ELSE b

\* s[:n]
Prefix(s, n) == SubSeq(s, 1, Min(n, Len(s)))

\* s[i:] with i counted from 1
Suffix(s, i) == SubSeq(s, i, Len(s))

\* str.strip()
Strip(s) ==
    With({i \in 1..Len(s) : CharAt(s, i) \notin SpaceSet}, LAMBDA keep :
        IF keep = {} THEN "" ELSE SubSeq(s, FirstIndex(keep), LastIndex(keep)))

\* " ".join(seq) and its generalisation sep.join(seq)
RECURSIVE JoinFrom(_, _, _)
JoinFrom(seq, sep, i) ==
    IF i > Len(seq) THEN ""
    ELSE IF i = Len(seq) THEN seq[i]
    ELSE seq[i] \o sep \o JoinFrom(seq, sep, i + 1)

Join(seq, sep) == JoinFrom(seq, sep, 1)

\* the end of the maximal run of characters of cls that starts at i
\* (i - 1 when the character at i is not in cls)
RunEnd(s, i, cls) ==
    With(FirstIndex({j \in i..Len(s) : CharAt(s, j) \notin cls}), LAMBDA stop :
        IF i > Len(s) THEN i - 1
        ELSE IF stop = 0 THEN Len(s)
        ELSE stop - 1)

\* x in seq, for a Python list
InSeq(x, seq) == \E i \in 1..Len(seq) : seq[i] = x

-----------------------------------------------------------------------------
(* Configuration: src/config.py, read through the module-level `settings`. *)

VARIABLES settings, cached, client, req, listed, writes, firstMap, input, output

\* Python None where a str is expected: the tool resolver's and the regex
\* helpers' "no result".  Every str these return is non-empty, and every use
\* of the result tests truthiness, which None and "" share.
NoneStr == ""

-----------------------------------------------------------------------------
(* Intent gate and text extractors                                         *)

\* A faulty variant of needs_tools that sends every message to the tools; the
\* property of C6 must tell it from needs_tools.
needs_tools_always(user_message) == TRUE

\* the triggers list of _needs_tools; the source writes "wants" "commit"
\* without a comma between them, which Python concatenates to one literal
triggers ==
    { "jira", "github", "issue", "issues", "task", "tasks", "ticket",
      "pull request", "pr", "permission", "history", "story", "stories",
      "epic", "epics", "feature", "features", "bug", "bugs", "problem",
      "problems", "error", "errors", "help", "need", "needs", "want",
      "wants" \o "commit",
      "commits", "repository", "repositories", "repo", "repos", "list repos",
      "list commits", "list commit", "list commit history", "commit history" }

needs_tools(user_message) == ContainsAny(Lower(user_message), triggers)

direct_create_patterns ==
    { "create a bug", "create bug", "create jira bug", "create jira ticket",
      "create ticket in jira", "create a ticket", "create ticket",
      "open a bug", "open bug in jira", "open a ticket", "file a bug",
      "report a bug", "create issue", "create an issue", "raise a bug" }

wants_direct_create(user_message) ==
    ContainsAny(Lower(user_message), direct_create_patterns)

stop ==
    { "the", "a", "an", "and", "or", "to", "on", "in", "for", "of", "with",
      "about", "all", "give", "show", "list", "get", "me", "my", "please",
      "could", "would", "find", "fetch", "retrieve", "past", "history",
      "issue", "issues", "pr", "pull", "request", "requests", "related",
      "know", "want" }

\* re.findall(cls+, s): the maximal runs of characters of cls, left to right
RECURSIVE FindRuns(_, _, _)
FindRuns(s, i, cls) ==
    With(FirstIndex({j \in i..Len(s) : CharAt(s, j) \in cls}), LAMBDA b :
        IF b = 0 THEN <<>>
        ELSE With(RunEnd(s, b, cls), LAMBDA e :
                <<SubSeq(s, b, e)>> \o FindRuns(s, e + 1, cls)))

keyword_limit == 5
keyword_min_len == 2
default_keyword == "permission"

\* A faulty variant of KeywordLoop that appends a word the list already
\* holds; the property of C21 must tell it from KeywordLoop.
RECURSIVE KeywordLoop_repeating(_, _, _)
KeywordLoop_repeating(words, i, keywords) ==
    IF i > Len(words) THEN keywords
    ELSE With(IF words[i] \notin stop /\ Len(words[i]) > keyword_min_len
                 THEN Append(keywords, words[i]) ELSE keywords,
              LAMBDA kw2 : IF Len(kw2) >= keyword_limit THEN kw2
                           ELSE KeywordLoop_repeating(words, i + 1, kw2))

\* the for loop of _extract_keywords: the word is examined, then the limit
RECURSIVE KeywordLoop(_, _, _)
KeywordLoop(words, i, keywords) ==
    IF i > Len(words) THEN keywords
    ELSE With(IF /\ words[i] \notin stop
                    /\ Len(words[i]) > keyword_min_len
                    /\ ~InSeq(words[i], keywords)
                 THEN Append(keywords, words[i]) ELSE keywords,
              LAMBDA kw2 : IF Len(kw2) >= keyword_limit THEN kw2
                           ELSE KeywordLoop(words, i + 1, kw2))

extract_keywords(user_message) ==
    With(KeywordLoop(FindRuns(Lower(user_message), 1, KeywordCharSet), 1, <<>>),
         LAMBDA keywords : IF keywords = <<>> THEN <<default_keyword>> ELSE keywords)

\* one match of  [\w.-]+/[\w.-]+  starting at i: its end, or 0.  Neither
\* class holds "/", so the greedy runs cannot be shortened to any effect.
OwnerNameEnd(s, i) ==
    With(RunEnd(s, i, RepoCharSet), LAMBDA a :
        IF a < i \/ CharAt(s, a + 1) # "/" THEN 0
        ELSE With(RunEnd(s, a + 2, RepoCharSet), LAMBDA b :
                IF b < a + 2 THEN 0 ELSE b))

\* re.findall(r"repo:([\w.-]+/[\w.-]+)", s, flags=re.IGNORECASE)
RECURSIVE FindRepoTokens(_, _, _)
FindRepoTokens(s, low, i) ==
    With(FirstIndex({j \in i..Len(s) :
                        MatchAt(low, j, "repo:") /\ OwnerNameEnd(s, j + 5) > 0}),
         LAMBDA b :
            IF b = 0 THEN <<>>
            ELSE With(OwnerNameEnd(s, b + 5), LAMBDA e :
                    <<SubSeq(s, b + 5, e)>> \o FindRepoTokens(s, low, e + 1)))

\* re.search(r"github\.com/([\w.-]+)/([\w.-]+)", url): <<owner, repo>> of the
\* leftmost match, or <<>>; ignorecase tells whether re.IGNORECASE is given
GithubUrlMatch(url, ignorecase) ==
    With(IF ignorecase THEN Lower(url) ELSE url, LAMBDA hay :
    With(FirstIndex({i \in 1..Len(url) :
                        MatchAt(hay, i, "github.com/") /\ OwnerNameEnd(url, i + 11) > 0}),
         LAMBDA i :
            IF i = 0 THEN <<>>
            ELSE With(RunEnd(url, i + 11, RepoCharSet), LAMBDA a :
                    <<SubSeq(url, i + 11, a),
                      SubSeq(url, a + 2, OwnerNameEnd(url, i + 11))>>)))

\* str.split(","), then strip() and drop the empty pieces
RECURSIVE SplitComma(_, _)
SplitComma(s, i) ==
    With(FirstIndex({j \in i..Len(s) : CharAt(s, j) = ","}), LAMBDA c :
        IF c = 0 THEN <<SubSeq(s, i, Len(s))>>
        ELSE <<SubSeq(s, i, c - 1)>> \o SplitComma(s, c + 1))

RECURSIVE StripNonEmpty(_, _)
StripNonEmpty(parts, i) ==
    IF i > Len(parts) THEN <<>>
    ELSE With(Strip(parts[i]), LAMBDA part : IF part = "" THEN <<>> ELSE <<part>>)
         \o StripNonEmpty(parts, i + 1)

\* the de-duplication loop of _parse_repo_filters: first occurrence wins,
\* compared in lower case
RECURSIVE DedupLower(_, _, _)
DedupLower(rs, i, repos) ==
    IF i > Len(rs) THEN repos
    ELSE IF \E j \in 1..Len(repos) : Lower(repos[j]) = Lower(rs[i])
         THEN DedupLower(rs, i + 1, repos)
         ELSE DedupLower(rs, i + 1, Append(repos, rs[i]))

\* A faulty variant of parse_repo_filters that lists the configured
\* repositories before the ones of the text; the property of C20 must tell it
\* from parse_repo_filters.
parse_repo_filters_defaults_first(user_message) ==
    DedupLower(
        StripNonEmpty(SplitComma(settings.GITHUB_DEFAULT_REPOS, 1), 1)
        \o With(IF settings.GITHUB_REPO_URL # ""
                THEN GithubUrlMatch(settings.GITHUB_REPO_URL, TRUE) ELSE <<>>,
                LAMBDA m : IF m # <<>> THEN <<m[1] \o "/" \o m[2]>> ELSE <<>>)
        \o FindRepoTokens(user_message, Lower(user_message), 1),
        1, <<>>)

parse_repo_filters(user_message) ==
    DedupLower(
        FindRepoTokens(user_message, Lower(user_message), 1)
        \o StripNonEmpty(SplitComma(settings.GITHUB_DEFAULT_REPOS, 1), 1)
        \o With(IF settings.GITHUB_REPO_URL # ""
                THEN GithubUrlMatch(settings.GITHUB_REPO_URL, TRUE) ELSE <<>>,
                LAMBDA m : IF m # <<>> THEN <<m[1] \o "/" \o m[2]>> ELSE <<>>),
        1, <<>>)

\* The capture of  \s*(.+?)(?:,|$)  (lazy, toEnd = FALSE) or of  \s*(.+)$
\* (greedy, toEnd = TRUE) started at q, or NoneStr.  \s* is greedy and gives
\* characters back one at a time; "." matches no newline; "$" matches at the
\* end of the string and before a newline that ends it.
CaptureEnds(s, g, toEnd) ==
    {e \in g..Len(s) :
        /\ \A k \in g..e : CharAt(s, k) # "\n"
        /\ \/ e = Len(s)
           \/ e + 1 = Len(s) /\ CharAt(s, Len(s)) = "\n"
           \/ ~toEnd /\ CharAt(s, e + 1) = ","}

CaptureFrom(s, q, toEnd) ==
    With({g \in q..(RunEnd(s, q, SpaceSet) + 1) : CaptureEnds(s, g, toEnd) # {}},
         LAMBDA starts :
            IF starts = {} THEN [found |-> FALSE, text |-> NoneStr]
            ELSE With(LastIndex(starts), LAMBDA g :
                 With(CaptureEnds(s, g, toEnd), LAMBDA ends :
                    [found |-> TRUE,
                     text |-> SubSeq(s, g, IF toEnd THEN LastIndex(ends)
                                           ELSE FirstIndex(ends))])))

\* re.search(word \s*[-:] \s* capture, s, flags=re.IGNORECASE): the capture
\* of the leftmost match, stripped, or NoneStr
\* the capture of the match that starts at i with the word, if there is one
CaptureAt(s, low, i, word, toEnd) ==
    With(RunEnd(s, i + Len(word), SpaceSet) + 1, LAMBDA sep :
        IF MatchAt(low, i, word) /\ CharAt(s, sep) \in {"-", ":"}
        THEN CaptureFrom(s, sep + 1, toEnd)
        ELSE [found |-> FALSE, text |-> NoneStr])

LabelledCapture(s, word, toEnd) ==
    With(Lower(s), LAMBDA low :
    With(FirstIndex({i \in 1..Len(s) : CaptureAt(s, low, i, word, toEnd).found}),
         LAMBDA i : IF i = 0 THEN NoneStr
                    ELSE Strip(CaptureAt(s, low, i, word, toEnd).text)))

\* <<title, description>>
parse_title_description(user_message) ==
    << LabelledCapture(user_message, "title", FALSE),
       LabelledCapture(user_message, "description", TRUE) >>

sha_min_len == 7
sha_max_len == 40

\* re.search(r"\b[0-9a-f]{7,40}\b", text): between two word boundaries lies a
\* whole run of \w characters, so the match is the first such run that is
\* all hex digits and 7 to 40 long; NoneStr when there is none
ShaRun(text, i) ==
    With(RunEnd(text, i, WordCharSet), LAMBDA e :
        /\ CharAt(text, i) \in WordCharSet
        /\ CharAt(text, i - 1) \notin WordCharSet
        /\ e - i + 1 >= sha_min_len
        /\ e - i + 1 <= sha_max_len
        /\ \A k \in i..e : CharAt(text, k) \in HexCharSet)

ShaSearch(text) ==
    With(FirstIndex({i \in 1..Len(text) : ShaRun(text, i)}), LAMBDA b :
        IF b = 0 THEN NoneStr ELSE SubSeq(text, b, RunEnd(text, b, WordCharSet)))

commit_phrases ==
    { "this commit", "that commit", "the commit", "show commit", "get commit",
      "view commit", "open commit", "commit details", "details for commit",
      "details of commit", "what changed in commit", "changes in commit" }

specific_commit_intent(text_lower) ==
    ShaSearch(text_lower) # NoneStr /\ ContainsAny(text_lower, commit_phrases)

issue_pr_intent(text_lower) ==
    ContainsAny(text_lower, {"issue", "issues", "pr", "pull request", "pull requests"})

\* A faulty variant of allowed_providers that applies the exclusions to the
\* provider of an exclusive phrase; the property of C19 must tell it from
\* allowed_providers.
allowed_providers_exclusions_applied(text) ==
    (IF ContainsAny(text, {"only jira", "consider only jira", "jira only"})
     THEN {"jira"}
     ELSE IF ContainsAny(text, {"only github", "consider only github", "github only"})
     THEN {"github"}
     ELSE {"jira", "github"})
    \ ((IF ContainsAny(text, {"no jira", "without jira", "ignore jira"})
        THEN {"jira"} ELSE {})
       \cup
       (IF ContainsAny(text, {"no github", "without github", "ignore github"})
        THEN {"github"} ELSE {}))

\* _allowed_providers of _plan
allowed_providers(text) ==
    IF ContainsAny(text, {"only jira", "consider only jira", "jira only"})
    THEN {"jira"}
    ELSE IF ContainsAny(text, {"only github", "consider only github", "github only"})
    THEN {"github"}
    ELSE {"jira", "github"}
         \ ((IF ContainsAny(text, {"no jira", "without jira", "ignore jira"})
             THEN {"jira"} ELSE {})
            \cup
            (IF ContainsAny(text, {"no github", "without github", "ignore github"})
             THEN {"github"} ELSE {}))

-----------------------------------------------------------------------------
(* Python dicts keep insertion order: a dict is the sequence of its items, *)
(* each [k |-> key, v |-> value], with pairwise distinct keys.             *)

Keys(d) == {d[i].k : i \in 1..Len(d)}

Has(d, key) == key \in Keys(d)

\* d[key], for a key of d
Get(d, key) == d[CHOOSE i \in 1..Len(d) : d[i].k = key].v

\* d[key] = val
Put(d, key, val) ==
    IF Has(d, key)
    THEN [i \in 1..Len(d) |-> IF d[i].k = key THEN [k |-> key, v |-> val] ELSE d[i]]
    ELSE Append(d, [k |-> key, v |-> val])

\* {k: v for k, v in d.items() if k in keep}
RECURSIVE Restrict(_, _, _)
Restrict(d, keep, i) ==
    IF i > Len(d) THEN <<>>
    ELSE (IF d[i].k \in keep THEN <<d[i]>> ELSE <<>>) \o Restrict(d, keep, i + 1)

\* the dict as a mapping: what == compares on Python dicts
AsMap(d) == [key \in Keys(d) |-> Get(d, key)]

-----------------------------------------------------------------------------
(* Tool descriptors and the resolver                                       *)

\* A schema entry of a tool dict: given tells whether the key holds a truthy
\* dict, properties lists the names under its "properties", in order.
NoSchema == [given |-> FALSE, properties |-> <<>>]
SchemaOf(props) == [given |-> TRUE, properties |-> props]

\* A tool dict as _normalize_tool_item leaves it.
Tool(name, description, input_schema) ==
    [name |-> name, description |-> description,
     input_schema |-> input_schema, inputSchema |-> NoSchema, schema |-> NoSchema]

\* Python None where a tool dict is expected.  _find_tool_by_name returns
\* only tools whose name equals a non-empty name, so no result equals this.
NoneMeta == Tool("", "", NoSchema)

\* all(tok in blob for tok in required_tokens)
AllTokensIn(blob, required_tokens) ==
    \A k \in 1..Len(required_tokens) : Contains(blob, required_tokens[k])

\* step 1 of _resolve_tool_name: lower_map keeps, for each lower-cased name,
\* the last tool of that name; the preferred names are tried in order
LowerMapGet(tools, l) ==
    LastIndex({i \in 1..Len(tools) : tools[i].name # "" /\ Lower(tools[i].name) = l})

\* A faulty variant of PreferredMatch that takes the first tool of the
\* catalog that bears any preferred name; the property of C17 must tell it
\* from PreferredMatch.
PreferredMatch_catalog_order(tools, preferred_names) ==
    With(FirstIndex({j \in 1..Len(tools) :
                        \E k \in 1..Len(preferred_names) :
                            Lower(tools[j].name) = Lower(preferred_names[k])}),
         LAMBDA i : IF i = 0 THEN NoneStr ELSE tools[i].name)

PreferredMatch(tools, preferred_names) ==
    With(FirstIndex({k \in 1..Len(preferred_names) :
                        LowerMapGet(tools, Lower(preferred_names[k])) # 0}),
         LAMBDA p : IF p = 0 THEN NoneStr
                    ELSE tools[LowerMapGet(tools, Lower(preferred_names[p]))].name)

\* step 2: the first tool whose "name description" holds every token
BlobMatch(tools, required_tokens) ==
    With(FirstIndex({j \in 1..Len(tools) :
             AllTokensIn(Lower(tools[j].name \o " " \o tools[j].description),
                         required_tokens)}),
         LAMBDA i : IF i = 0 THEN NoneStr ELSE tools[i].name)

\* step 3: the first tool whose name holds every token
NameMatch(tools, required_tokens) ==
    With(FirstIndex({j \in 1..Len(tools) :
             AllTokensIn(Lower(tools[j].name), required_tokens)}),
         LAMBDA i : IF i = 0 THEN NoneStr ELSE tools[i].name)

resolve_tool_name(tools, preferred_names, required_tokens) ==
    With(PreferredMatch(tools, preferred_names), LAMBDA preferred :
        IF preferred # NoneStr THEN preferred
        ELSE IF required_tokens = <<>> THEN NoneStr
        ELSE With(BlobMatch(tools, required_tokens), LAMBDA byBlob :
                IF byBlob # NoneStr THEN byBlob
                ELSE NameMatch(tools, required_tokens)))

find_tool_by_name(tools, name) ==
    IF name = NoneStr THEN NoneMeta
    ELSE With(FirstIndex({j \in 1..Len(tools) : Lower(tools[j].name) = Lower(name)}),
              LAMBDA i : IF i = 0 THEN NoneMeta ELSE tools[i])

extract_schema_keys(tool_meta) ==
    IF tool_meta = NoneMeta THEN <<>>
    ELSE IF tool_meta.input_schema.given THEN tool_meta.input_schema.properties
    ELSE IF tool_meta.inputSchema.given THEN tool_meta.inputSchema.properties
    ELSE IF tool_meta.schema.given THEN tool_meta.schema.properties
    ELSE <<>>

-----------------------------------------------------------------------------
(* Argument adapter                                                        *)

\* keys_lower.get(c.lower()): the dict comprehension keeps, for each
\* lower-cased name, the last schema key of that name; NoneStr when absent
KeysLowerGet(schema_keys, c) ==
    With(LastIndex({j \in 1..Len(schema_keys) : Lower(schema_keys[j]) = Lower(c)}),
         LAMBDA i : IF i = 0 THEN NoneStr ELSE schema_keys[i])

\* choose_key of _adapt_arguments
choose_key(schema_keys, candidates, default_key) ==
    With(FirstIndex({j \in 1..Len(candidates) :
                        KeysLowerGet(schema_keys, candidates[j]) # NoneStr}),
         LAMBDA i : IF i = 0 THEN default_key
                    ELSE KeysLowerGet(schema_keys, candidates[i]))

\* args[key_of_schema] = intended_args[logical] when the logical key is given
CopyIf(args, intended_args, logical, key) ==
    IF Has(intended_args, logical) THEN Put(args, key, Get(intended_args, logical))
    ELSE args

\* A faulty variant of CopyLimit that ignores the logical key "limit"; the
\* property of C12 must tell it from CopyLimit.
CopyLimit_ignored(args, intended_args, key) == args

\* the same, for the "limit" fallback: only when the target key is still unset
CopyLimit(args, intended_args, key) ==
    IF Has(intended_args, "limit") /\ ~Has(args, key)
    THEN Put(args, key, Get(intended_args, "limit"))
    ELSE args

\* the camelCase <-> snake_case remapping of the Jira pass-through
CaseVariant(k, schema_keys) ==
    IF k = "project_key" /\ InSeq("projectKey", schema_keys) THEN "projectKey"
    ELSE IF k = "projectKey" /\ InSeq("project_key", schema_keys) THEN "project_key"
    ELSE IF k = "issue_type" /\ InSeq("issueType", schema_keys) THEN "issueType"
    ELSE IF k = "issueType" /\ InSeq("issue_type", schema_keys) THEN "issue_type"
    ELSE k

\* candidate of the Jira pass-through loop, for the logical key k
PassThroughKey(k, schema_keys) ==
    With(KeysLowerGet(schema_keys, k), LAMBDA viaSchema :
    With(IF viaSchema # NoneStr THEN viaSchema ELSE k, LAMBDA candidate :
        IF candidate = k /\ schema_keys # <<>>
        THEN CaseVariant(k, schema_keys) ELSE candidate))

\* for k, v in intended_args.items(): if k not in args: args[candidate] = v
RECURSIVE JiraPassThrough(_, _, _, _)
JiraPassThrough(args, intended_args, schema_keys, i) ==
    IF i > Len(intended_args) THEN args
    ELSE JiraPassThrough(
             IF Has(args, intended_args[i].k) THEN args
             ELSE Put(args, PassThroughKey(intended_args[i].k, schema_keys),
                      intended_args[i].v),
             intended_args, schema_keys, i + 1)

JiraArgs(schema_keys, intended_args) ==
    With(choose_key(schema_keys, <<"jql", "query", "jqlQuery">>, "jql"), LAMBDA jql_key :
    With(choose_key(schema_keys, <<"maxResults", "max_results", "limit">>, "maxResults"),
         LAMBDA max_key :
            JiraPassThrough(
                CopyLimit(CopyIf(CopyIf(<<>>, intended_args, "jql", jql_key),
                                 intended_args, "maxResults", max_key),
                          intended_args, max_key),
                intended_args, schema_keys, 1)))

\* A faulty variant of EnsureRepoInQuery that leaves the query as planned;
\* the property of C10 must tell it from EnsureRepoInQuery.
EnsureRepoInQuery_skipped(args, query_key, token) == args

\* query_key in args and token not in args[query_key]: the token is put in
\* front, and the result stripped
EnsureRepoInQuery(args, query_key, token) ==
    IF Has(args, query_key) /\ ~Contains(Get(args, query_key), token)
    THEN Put(args, query_key, Strip(token \o " " \o Get(args, query_key)))
    ELSE args

\* the "Enforce repository scoping" block.  Every value the planner puts
\* under "query" is a str, so isinstance(args[query_key], str) holds.
EnforceRepo(args, query_key, owner_key, repo_key) ==
    With(Strip(settings.GITHUB_REPO_URL), LAMBDA enforced_url :
    With(IF enforced_url # "" THEN GithubUrlMatch(enforced_url, FALSE) ELSE <<>>,
         LAMBDA m :
            IF m = <<>> THEN args
            ELSE Put(Put(EnsureRepoInQuery(args, query_key,
                                           "repo:" \o m[1] \o "/" \o m[2]),
                         owner_key, m[1]),
                     repo_key, m[2])))

\* the copies of the logical keys into args, in the order of the source
GithubCopies(intended_args, query_key, per_page_key, owner_key, repo_key, schema_keys) ==
    LET sha_key == choose_key(schema_keys, <<"sha", "start_sha">>, "sha")
        ref_key == choose_key(schema_keys, <<"ref", "sha", "commit">>, "ref")
        path_key == choose_key(schema_keys, <<"path", "filePath">>, "path")
        order_key == choose_key(schema_keys, <<"order", "direction">>, "order")
        sort_key == choose_key(schema_keys, <<"sort">>, "sort")
        page_key == choose_key(schema_keys, <<"page">>, "page")
        a1 == CopyIf(<<>>, intended_args, "query", query_key)
        a2 == CopyIf(a1, intended_args, "perPage", per_page_key)
        a3 == CopyLimit(a2, intended_args, per_page_key)
        a4 == CopyIf(a3, intended_args, "owner", owner_key)
        a5 == CopyIf(a4, intended_args, "repo", repo_key)
        a6 == CopyIf(a5, intended_args, "sha", sha_key)
        a7 == CopyIf(a6, intended_args, "ref", ref_key)
        a8 == CopyIf(a7, intended_args, "path", path_key)
        a9 == CopyIf(a8, intended_args, "order", order_key)
        a10 == CopyIf(a9, intended_args, "sort", sort_key)
    IN  CopyIf(a10, intended_args, "page", page_key)

GithubArgs(schema_keys, intended_args) ==
    With(choose_key(schema_keys, <<"query", "q">>, "query"), LAMBDA query_key :
    With(choose_key(schema_keys, <<"perPage", "per_page", "limit">>, "perPage"),
         LAMBDA per_page_key :
    With(choose_key(schema_keys, <<"owner", "user", "org">>, "owner"), LAMBDA owner_key :
    With(choose_key(schema_keys, <<"repo", "repository">>, "repo"), LAMBDA repo_key :
        EnforceRepo(GithubCopies(intended_args, query_key, per_page_key, owner_key,
                                 repo_key, schema_keys),
                    query_key, owner_key, repo_key)))))

\* A faulty variant of SchemaFilter that keeps every assembled key; the
\* property of C11 must tell it from SchemaFilter.
SchemaFilter_skipped(args, schema_keys) == args

\* "If we know the schema keys, drop extras not present"
SchemaFilter(args, schema_keys) ==
    IF schema_keys # <<>>
    THEN Restrict(args, {schema_keys[i] : i \in 1..Len(schema_keys)}, 1)
    ELSE args

adapt_arguments(provider, tool_meta, intended_args) ==
    With(extract_schema_keys(tool_meta), LAMBDA schema_keys :
        SchemaFilter(IF provider = "jira" THEN JiraArgs(schema_keys, intended_args)
                     ELSE IF provider = "github" THEN GithubArgs(schema_keys, intended_args)
                     ELSE intended_args,
                     schema_keys))

-----------------------------------------------------------------------------
(* Planner                                                                 *)

Task(provider, tool, meta, args) ==
    [provider |-> provider, tool |-> tool, meta |-> meta, args |-> args]

KV(key, val) == [k |-> key, v |-> val]

summary_max_len == 100
max_results == 30

\* A faulty variant of direct_create_branch that never takes the branch; the
\* property of C9 must tell it from direct_create_branch.
direct_create_branch_never(user_message, providers) == FALSE

\* the condition of the direct-create branch of _plan
direct_create_branch(user_message, providers) ==
    "jira" \in providers /\ wants_direct_create(user_message)

\* A faulty variant of direct_create_args that ignores the labelled title
\* and description; the property of C8 must tell it from direct_create_args.
direct_create_args_unparsed(user_message) ==
    << KV("project_key", settings.JIRA_DEFAULT_PROJECT_KEY),
       KV("summary", Prefix(user_message, summary_max_len)),
       KV("description", user_message),
       KV("issue_type", "Bug") >>

\* the args dict of the direct-create task
direct_create_args(user_message) ==
    With(parse_title_description(user_message), LAMBDA td :
        << KV("project_key", settings.JIRA_DEFAULT_PROJECT_KEY),
           KV("summary", IF td[1] # NoneStr THEN td[1]
                         ELSE Prefix(user_message, summary_max_len)),
           KV("description", IF td[2] # NoneStr THEN td[2] ELSE user_message),
           KV("issue_type", "Bug") >>)

direct_create_plan(user_message, jira_tools) ==
    With(resolve_tool_name(jira_tools,
             <<"jira_create_issue", "create_issue", "createIssue">>,
             <<"create", "issue">>),
         LAMBDA jira_create_tool :
    With(IF jira_create_tool # NoneStr THEN jira_create_tool ELSE "jira_create_issue",
         LAMBDA chosen_create_tool :
            << Task("jira", chosen_create_tool,
                    find_tool_by_name(jira_tools, chosen_create_tool),
                    direct_create_args(user_message)) >>))

\* [f'(summary ~ "{kw}" OR description ~ "{kw}")' for kw in keywords]
jql_terms(keywords) ==
    [i \in 1..Len(keywords) |->
        "(summary ~ \"" \o keywords[i] \o "\" OR description ~ \"" \o keywords[i] \o "\")"]

\* A faulty variant of jql_filter that takes the fixed clause for any
\* message of at most two keywords; the property of C25 must tell it from
\* jql_filter.
jql_filter_few_keywords(text_lower, keywords) ==
    IF Contains(text_lower, "all tasks") \/ Len(keywords) <= 2
    THEN "issuetype in (\"Task\",\"Story\",\"Bug\",\"Epic\")"
    ELSE IF keywords # <<>> THEN Join(jql_terms(keywords), " OR ") ELSE NoneStr

\* jql_filter of _plan; NoneStr stands for None
jql_filter(text_lower, keywords) ==
    IF Contains(text_lower, "all tasks")
       \/ (Contains(text_lower, "tasks") /\ Len(keywords) <= 2)
    THEN "issuetype in (\"Task\",\"Story\",\"Bug\",\"Epic\")"
    ELSE IF keywords # <<>> THEN Join(jql_terms(keywords), " OR ") ELSE NoneStr

\* A faulty variant of jira_search_plan that falls back to a fixed tool name
\* when no search tool resolves; the property of C18 must tell it from
\* jira_search_plan.
jira_search_plan_fabricated(text_lower, keywords, providers, jira_tools) ==
    With(resolve_tool_name(jira_tools,
             <<"search_issues", "searchIssues", "issues_search", "jira_search_issues">>,
             <<"search", "issue">>),
         LAMBDA resolved :
    With(IF resolved # NoneStr THEN resolved ELSE "jira_search_issues",
         LAMBDA jira_search_tool :
    With(jql_filter(text_lower, keywords), LAMBDA filter :
        IF "jira" \in providers /\ filter # NoneStr
        THEN << Task("jira", jira_search_tool,
                     find_tool_by_name(jira_tools, jira_search_tool),
                     << KV("jql", "(" \o filter \o ") ORDER BY updated DESC"),
                        KV("maxResults", max_results) >>) >>
        ELSE <<>>)))

\* the Jira search branch of _plan
jira_search_plan(text_lower, keywords, providers, jira_tools) ==
    With(resolve_tool_name(jira_tools,
             <<"search_issues", "searchIssues", "issues_search", "jira_search_issues">>,
             <<"search", "issue">>),
         LAMBDA jira_search_tool :
    With(jql_filter(text_lower, keywords), LAMBDA filter :
        IF "jira" \in providers /\ filter # NoneStr /\ jira_search_tool # NoneStr
        THEN << Task("jira", jira_search_tool,
                     find_tool_by_name(jira_tools, jira_search_tool),
                     << KV("jql", "(" \o filter \o ") ORDER BY updated DESC"),
                        KV("maxResults", max_results) >>) >>
        ELSE <<>>))

\* gh_search_tool of _plan: the issue search tool, else the PR search tool
gh_search_tool(gh_tools) ==
    With(resolve_tool_name(gh_tools, <<"search_issues", "searchIssues">>,
                           <<"search", "issue">>),
         LAMBDA t :
            IF t # NoneStr THEN t
            ELSE resolve_tool_name(gh_tools,
                     <<"search_pull_requests", "searchPullRequests">>,
                     <<"search", "pull">>))

\* " ".join([f"repo:{r}" for r in repo_filters]) + (" " if repo_filters else "")
repo_part(repo_filters) ==
    Join([i \in 1..Len(repo_filters) |-> "repo:" \o repo_filters[i]], " ")
    \o (IF repo_filters # <<>> THEN " " ELSE "")

\* the GitHub issue/PR search branch
gh_search_plan(text_lower, keywords, repo_filters, providers, gh_tools) ==
    With(gh_search_tool(gh_tools), LAMBDA tool :
        IF "github" \in providers /\ tool # NoneStr /\ issue_pr_intent(text_lower)
        THEN << Task("github", tool, find_tool_by_name(gh_tools, tool),
                     << KV("query", repo_part(repo_filters)
                                    \o "is:pr is:merged sort:updated-desc "
                                    \o Join(keywords, " ")),
                        KV("perPage", max_results) >>) >>
        ELSE <<>>)

\* the GitHub repository search branch
gh_repo_search_plan(text_lower, keywords, providers, gh_tools) ==
    With(resolve_tool_name(gh_tools, <<"search_repositories", "searchRepositories">>,
                           <<"search", "repo">>),
         LAMBDA tool :
    With(Join(keywords, " "), LAMBDA joined :
        IF /\ "github" \in providers
           /\ tool # NoneStr
           /\ ContainsAny(text_lower, {"repositories", "repos", "list repos"})
        THEN << Task("github", tool, find_tool_by_name(gh_tools, tool),
                     << KV("query", IF joined # "" THEN joined ELSE "stars:>1"),
                        KV("perPage", max_results) >>) >>
        ELSE <<>>))

\* repos[0].split("/", 1): <<owner, repo_name>>, or <<>> where the unpacking
\* raises ValueError because the filter holds no "/"
SplitOwnerRepo(r) ==
    With(FirstIndex({i \in 1..Len(r) : CharAt(r, i) = "/"}), LAMBDA at :
        IF at = 0 THEN <<>> ELSE <<SubSeq(r, 1, at - 1), SubSeq(r, at + 1, Len(r))>>)

\* owner, repo_name of the first repository filter, <<>> when there is no
\* filter or it does not split
FirstOwnerRepo(repos) == IF repos = <<>> THEN <<>> ELSE SplitOwnerRepo(repos[1])

\* A faulty variant of gh_list_commits_plan that lists the commits even when
\* one commit is asked for; the property of C13 must tell it from
\* gh_list_commits_plan.
gh_list_commits_plan_unsuppressed(text_lower, repos, wants_specific, providers, gh_tools) ==
    With(resolve_tool_name(gh_tools, <<"list_commits", "listCommits">>, <<"commit">>),
         LAMBDA tool :
    With(FirstOwnerRepo(repos), LAMBDA owner_repo :
        IF /\ "github" \in providers
           /\ tool # NoneStr
           /\ ContainsAny(text_lower, {"commits", "commit history", "history"})
           /\ owner_repo # <<>>
        THEN << Task("github", tool, find_tool_by_name(gh_tools, tool),
                     << KV("owner", owner_repo[1]),
                        KV("repo", owner_repo[2]),
                        KV("perPage", max_results) >>) >>
        ELSE <<>>))

\* the commit listing branch
gh_list_commits_plan(text_lower, repos, wants_specific, providers, gh_tools) ==
    With(resolve_tool_name(gh_tools, <<"list_commits", "listCommits">>, <<"commit">>),
         LAMBDA tool :
    With(FirstOwnerRepo(repos), LAMBDA owner_repo :
        IF /\ "github" \in providers
           /\ tool # NoneStr
           /\ ContainsAny(text_lower, {"commits", "commit history", "history"})
           /\ ~wants_specific
           /\ owner_repo # <<>>
        THEN << Task("github", tool, find_tool_by_name(gh_tools, tool),
                     << KV("owner", owner_repo[1]),
                        KV("repo", owner_repo[2]),
                        KV("perPage", max_results) >>) >>
        ELSE <<>>))

\* the single commit branch
gh_get_commit_plan(text_lower, repos, wants_specific, providers, gh_tools) ==
    With(resolve_tool_name(gh_tools, <<"get_commit", "getCommit">>, <<"commit">>),
         LAMBDA tool :
    With(FirstOwnerRepo(repos), LAMBDA owner_repo :
        IF /\ "github" \in providers
           /\ tool # NoneStr
           /\ wants_specific
           /\ owner_repo # <<>>
        THEN << Task("github", tool, find_tool_by_name(gh_tools, tool),
                     << KV("owner", owner_repo[1]),
                        KV("repo", owner_repo[2]),
                        KV("ref", ShaSearch(text_lower)) >>) >>
        ELSE <<>>))

\* the branches of _plan after the direct-create one, in the order of the
\* source
search_plan(text_lower, keywords, repos, wants_specific, providers, jira_tools, gh_tools) ==
    jira_search_plan(text_lower, keywords, providers, jira_tools)
    \o gh_search_plan(text_lower, keywords, repos, providers, gh_tools)
    \o gh_repo_search_plan(text_lower, keywords, providers, gh_tools)
    \o gh_list_commits_plan(text_lower, repos, wants_specific, providers, gh_tools)
    \o gh_get_commit_plan(text_lower, repos, wants_specific, providers, gh_tools)

\* _plan(user_message, available_tools)
plan(user_message, available_tools) ==
    With(Lower(user_message), LAMBDA text_lower :
    With(allowed_providers(text_lower), LAMBDA providers :
        IF direct_create_branch(user_message, providers)
        THEN direct_create_plan(user_message, available_tools.jira)
        ELSE search_plan(text_lower, extract_keywords(user_message),
                         parse_repo_filters(user_message),
                         specific_commit_intent(text_lower), providers,
                         available_tools.jira, available_tools.github)))

-----------------------------------------------------------------------------
(* Payloads: the plain Python data that _unwrap_mcp_result and             *)
(* JiraMCPClient._unwrap_result hand back.  Every value carries its type.  *)

JNull == [t |-> "null"]
JStr(s) == [t |-> "str", s |-> s]
JNum(n) == [t |-> "num", n |-> n]
JList(l) == [t |-> "list", l |-> l]
JDict(d) == [t |-> "dict", d |-> d]
\* a call result that is neither list, dict, nor unwrappable content
JObject == [t |-> "object"]

IsDict(j) == j.t = "dict"
IsList(j) == j.t = "list"
IsStr(j) == j.t = "str"

\* bool(j)
Truthy(j) ==
    CASE j.t = "null" -> FALSE
      [] j.t = "str" -> j.s # ""
      [] j.t = "num" -> j.n # 0
      [] j.t = "list" -> j.l # <<>>
      [] j.t = "dict" -> j.d # <<>>
      [] OTHER -> TRUE

\* a or b
Or(a, b) == IF Truthy(a) THEN a ELSE b

\* j.get(key), for a dict j
JGet(j, key) == IF Has(j.d, key) THEN Get(j.d, key) ELSE JNull

\* j.get(key) where the source first checks isinstance(j, dict), else None
JGetIfDict(j, key) == IF IsDict(j) THEN JGet(j, key) ELSE JNull

\* str(j), for the values that reach a str() or an f-string in _aggregate
Str(j) ==
    CASE j.t = "str" -> j.s
      [] j.t = "num" -> ToString(j.n)
      [] j.t = "null" -> "None"
      [] OTHER -> "<" \o j.t \o ">"

\* the escapes json.dumps(ensure_ascii=False) applies inside a string
EscapeChar(c) ==
    CASE c = "\"" -> "\\\""
      [] c = "\\" -> "\\\\"
      [] c = "\n" -> "\\n"
      [] c = "\t" -> "\\t"
      [] c = "\r" -> "\\r"
      [] OTHER -> c

RECURSIVE Escape(_)
Escape(s) ==
    IF Len(s) = 0 THEN ""
    ELSE IF Len(s) = 1 THEN EscapeChar(s)
    ELSE Escape(SubSeq(s, 1, Len(s) \div 2)) \o Escape(SubSeq(s, Len(s) \div 2 + 1, Len(s)))

\* json.dumps(j, ensure_ascii=False)
RECURSIVE Dumps(_)
Dumps(j) ==
    CASE j.t = "null" -> "null"
      [] j.t = "str" -> "\"" \o Escape(j.s) \o "\""
      [] j.t = "num" -> ToString(j.n)
      [] j.t = "list" -> "[" \o Join([i \in 1..Len(j.l) |-> Dumps(j.l[i])], ", ") \o "]"
      [] j.t = "dict" ->
            "{" \o Join([i \in 1..Len(j.d) |->
                           "\"" \o Escape(j.d[i].k) \o "\": " \o Dumps(j.d[i].v)], ", ")
                \o "}"

\* [x for x in l if isinstance(x, dict)]
RECURSIVE OnlyDicts(_, _)
OnlyDicts(l, i) ==
    IF i > Len(l) THEN <<>>
    ELSE (IF IsDict(l[i]) THEN <<l[i]>> ELSE <<>>) \o OnlyDicts(l, i + 1)

\* the concatenation of the lists f[1], ..., f[n]
RECURSIVE Flatten(_, _)
Flatten(f, i) == IF i > Len(f) THEN <<>> ELSE f[i] \o Flatten(f, i + 1)

\* s.rstrip("/")
RStripSlash(s) == SubSeq(s, 1, LastIndex({i \in 1..Len(s) : CharAt(s, i) # "/"}))

-----------------------------------------------------------------------------
(* Result aggregator                                                       *)

\* A faulty variant of browse_url that never builds the browse link; the
\* property of C14 must tell it from browse_url.
browse_url_never(issue_key) == JStr("")

\* browse_url of normalize_issue
browse_url(issue_key) ==
    IF settings.JIRA_URL # "" /\ Truthy(issue_key)
    THEN JStr(RStripSlash(settings.JIRA_URL) \o "/browse/" \o Str(issue_key))
    ELSE JStr("")

\* the record normalize_issue builds from raw, once raw["issue"] is unwrapped
issue_record(raw, fields) ==
    JDict(<< KV("id", Or(JGet(raw, "id"), JGet(raw, "issue_id"))),
             KV("key", JGet(raw, "key")),
             KV("summary", Or(Or(JGet(raw, "summary"), JGetIfDict(fields, "summary")),
                              JStr(""))),
             KV("description",
                Or(Or(JGet(raw, "description"), JGetIfDict(fields, "description")),
                   JStr(""))),
             KV("url", Or(Or(Or(browse_url(JGet(raw, "key")), JGet(raw, "self")),
                             JGet(raw, "url")),
                          JStr(""))) >>)

\* normalize_issue of _jira_issues_from_payload
normalize_issue(raw0) ==
    With(IF IsDict(JGet(raw0, "issue")) THEN JGet(raw0, "issue") ELSE raw0, LAMBDA raw :
        issue_record(raw, JGet(raw, "fields")))

\* [normalize_issue(it) for it in l if isinstance(it, dict)]
NormalizeAll(its) == [i \in 1..Len(its) |-> normalize_issue(its[i])]

\* the issues of one entry of a wrapped search result:
\* isinstance(entry, dict) and isinstance(entry.get("issues"), list)
EntryIssues(entry) ==
    IF IsDict(entry) /\ IsList(JGet(entry, "issues"))
    THEN NormalizeAll(OnlyDicts(JGet(entry, "issues").l, 1))
    ELSE <<>>

\* the issues of every entry of a list of entries
EntriesIssues(entries) == Flatten([i \in 1..Len(entries) |-> EntryIssues(entries[i])], 1)

jira_issues_from_payload(payload) ==
    IF IsList(payload) THEN EntriesIssues(payload.l)
    ELSE IF IsDict(payload)
    THEN (IF IsList(JGet(payload, "items")) THEN EntriesIssues(JGet(payload, "items").l)
          ELSE <<>>)
         \o (IF IsList(JGet(payload, "issues")) THEN EntryIssues(payload)
             ELSE IF IsDict(JGet(payload, "issue"))
             THEN <<normalize_issue(JGet(payload, "issue"))>>
             ELSE <<normalize_issue(payload)>>)
    ELSE <<>>

github_search_items(payload) ==
    IF IsDict(payload) /\ IsList(JGet(payload, "items"))
    THEN OnlyDicts(JGet(payload, "items").l, 1)
    ELSE IF IsList(payload) THEN OnlyDicts(payload.l, 1)
    ELSE <<>>

\* it.get("html_url") or it.get("url") or ""
ItemUrl(it) == Or(Or(JGet(it, "html_url"), JGet(it, "url")), JStr(""))

github_issue(it) ==
    JDict(<< KV("id", JGet(it, "id")),
             KV("number", JGet(it, "number")),
             KV("title", JGet(it, "title")),
             KV("state", JGet(it, "state")),
             KV("url", ItemUrl(it)) >>)

github_issues_from_payload(payload) ==
    With(github_search_items(payload), LAMBDA items :
        [i \in 1..Len(items) |-> github_issue(items[i])])

github_repo(it) ==
    JDict(<< KV("id", JGet(it, "id")),
             KV("name", JGet(it, "name")),
             KV("full_name", JGet(it, "full_name")),
             KV("description", JGet(it, "description")),
             KV("url", ItemUrl(it)),
             KV("stargazers_count", JGet(it, "stargazers_count")) >>)

github_repos_from_payload(payload) ==
    With(github_search_items(payload), LAMBDA items :
        [i \in 1..Len(items) |-> github_repo(items[i])])

\* the items of a commit listing: a bare list, or the first of the keys
\* commits, items, results that holds a list
commit_items(payload) ==
    IF IsList(payload) THEN OnlyDicts(payload.l, 1)
    ELSE IF IsDict(payload)
    THEN IF IsList(JGet(payload, "commits")) THEN OnlyDicts(JGet(payload, "commits").l, 1)
         ELSE IF IsList(JGet(payload, "items")) THEN OnlyDicts(JGet(payload, "items").l, 1)
         ELSE IF IsList(JGet(payload, "results")) THEN OnlyDicts(JGet(payload, "results").l, 1)
         ELSE <<>>
    ELSE <<>>

\* one commit record; author is (it.get("commit") or {}).get("author")
github_commit(it, author) ==
    JDict(<< KV("sha", JGet(it, "sha")),
             KV("message", JGetIfDict(JGet(it, "commit"), "message")),
             KV("author", JGetIfDict(author, "name")),
             KV("date", JGetIfDict(author, "date")),
             KV("url", ItemUrl(it)) >>)

github_commits_from_payload(payload) ==
    With(commit_items(payload), LAMBDA items :
        [i \in 1..Len(items) |->
            github_commit(items[i], JGetIfDict(JGet(items[i], "commit"), "author"))])

\* An outcome of asyncio.gather(..., return_exceptions=True): the payload a
\* call returned, or the exception it raised (msg is str(exception)).
Returned(payload) == [exc |-> FALSE, msg |-> "", payload |-> payload]
Raised(msg) == [exc |-> TRUE, msg |-> msg, payload |-> JNull]

\* f"{t.get('provider')}.{t.get('tool')}"
label(t) == t.provider \o "." \o t.tool

error_line(t, r) == label(t) \o ": error " \o r.msg

\* the "Count" block
count(r) == IF IsList(r) THEN Len(r.l) ELSE IF IsDict(r) THEN 1 ELSE 0

count_line(t, r) == label(t) \o ": " \o ToString(count(r)) \o " results"

\* structured.setdefault(bucket, []).extend(records), done only for a
\* non-empty list of records
Extend(structured, bucket, records) ==
    IF records = <<>> THEN structured
    ELSE IF Has(structured, bucket)
    THEN Put(structured, bucket, Get(structured, bucket) \o records)
    ELSE Append(structured, KV(bucket, records))

\* structured.get(bucket, [])
Bucket(structured, bucket) ==
    IF Has(structured, bucket) THEN Get(structured, bucket) ELSE <<>>

\* the "Provider-specific normalization" block: the bucket and the records
\* that task t's payload r adds to it
normalized(t, r) ==
    With(Lower(t.tool), LAMBDA tool :
        IF t.provider = "jira"
        THEN [bucket |-> "jira_issues", records |-> jira_issues_from_payload(r)]
        ELSE IF t.provider = "github"
        THEN IF Contains(tool, "search_issues")
             THEN [bucket |-> "github_issues", records |-> github_issues_from_payload(r)]
             ELSE IF Contains(tool, "search_repositories") \/ Contains(tool, "searchrepositories")
             THEN [bucket |-> "github_repositories", records |-> github_repos_from_payload(r)]
             ELSE IF Contains(tool, "list_commits") \/ Contains(tool, "listcommits")
             THEN [bucket |-> "github_commits", records |-> github_commits_from_payload(r)]
             ELSE IF Contains(tool, "get_commit") \/ Contains(tool, "getcommit")
             THEN [bucket |-> "github_commits",
                   records |-> github_commits_from_payload(
                                  IF IsDict(r) THEN JList(<<r>>) ELSE JList(<<>>))]
             ELSE [bucket |-> "", records |-> <<>>]
        ELSE [bucket |-> "", records |-> <<>>])

\* items_for_sources: the raw issues of the payload when it clearly holds
\* them, else the structured aggregates built so far
items_for_sources(t, r, structured) ==
    IF /\ IsList(r) /\ r.l # <<>> /\ IsDict(r.l[1]) /\ IsList(JGet(r.l[1], "issues"))
    THEN JGet(r.l[1], "issues").l
    ELSE IF IsDict(r) /\ IsList(JGet(r, "issues"))
    THEN JGet(r, "issues").l
    ELSE IF t.provider = "jira" THEN Bucket(structured, "jira_issues")
    ELSE IF t.provider = "github"
    THEN IF Bucket(structured, "github_issues") # <<>>
         THEN Bucket(structured, "github_issues")
         ELSE IF Bucket(structured, "github_repositories") # <<>>
         THEN Bucket(structured, "github_repositories")
         ELSE Bucket(structured, "github_commits")
    ELSE <<>>

max_sources == 5
preview_max_len == 200

\* one entry of sources, for the idx-th item
source_entry(idx, item) ==
    LET title == Or(Or(Or(Or(JGet(item, "title"), JGet(item, "key")), JGet(item, "name")),
                       JGet(item, "message")), JStr("item"))
        url == Or(Or(Or(JGet(item, "html_url"), JGet(item, "url")), JGet(item, "self")),
                  JStr(""))
        preview ==
            Or(Or(Or(IF IsStr(JGet(item, "body")) THEN JGet(item, "body") ELSE JStr(""),
                     IF IsDict(JGet(item, "fields"))
                     THEN JGet(JGet(item, "fields"), "summary") ELSE JStr("")),
                  IF IsDict(JGet(item, "commit"))
                  THEN JGet(JGet(item, "commit"), "message") ELSE JStr("")),
               JStr(""))
    IN  [chunk_id |-> idx,
         source |-> Str(Or(url, title)),
         content_preview |-> Prefix(Str(preview), preview_max_len)]

\* A faulty variant of sources_of that cites every item; the property of C16
\* must tell it from sources_of.
sources_of_uncapped(items) ==
    [raised |-> \E i \in 1..Len(items) : ~IsDict(items[i]),
     entries |-> With(OnlyDicts(items, 1), LAMBDA dicts :
                    [i \in 1..Len(dicts) |-> source_entry(i, dicts[i])])]

\* for idx, item in enumerate(items_for_sources[:5], start=1): item.get(...)
\* raises AttributeError for an item that is no dict
sources_of(items) ==
    With(SubSeq(items, 1, Min(max_sources, Len(items))), LAMBDA top :
        [raised |-> \E i \in 1..Len(top) : ~IsDict(top[i]),
         entries |-> With(OnlyDicts(top, 1), LAMBDA dicts :
                        [i \in 1..Len(dicts) |-> source_entry(i, dicts[i])])])

\* One pass of the loop "for t, r in zip(tasks, results)" over the state
\* [lines, sources, structured, raised] of _aggregate.
aggregate_step(acc, t, r) ==
    IF acc.raised THEN acc
    ELSE IF r.exc
    THEN [acc EXCEPT !.lines = Append(@, error_line(t, r))]
    ELSE With(normalized(t, r.payload), LAMBDA n :
         With(Extend(acc.structured, n.bucket, n.records), LAMBDA structured2 :
         With(sources_of(items_for_sources(t, r.payload, structured2)), LAMBDA src :
            [lines |-> Append(acc.lines, count_line(t, r.payload)),
             sources |-> acc.sources \o src.entries,
             structured |-> structured2,
             raised |-> src.raised])))

RECURSIVE aggregate_loop(_, _, _, _)
aggregate_loop(acc, tasks, results, i) ==
    IF i > Min(Len(tasks), Len(results)) THEN acc
    ELSE aggregate_loop(aggregate_step(acc, tasks[i], results[i]), tasks, results, i + 1)

aggregate_state(tasks, results) ==
    aggregate_loop([lines |-> <<>>, sources |-> <<>>, structured |-> <<>>, raised |-> FALSE],
                   tasks, results, 1)

\* A faulty variant of answer that always returns the textual summary; the
\* property of C1 must tell it from answer.
answer_textual(structured, lines) ==
    IF lines # <<>> THEN Join(lines, "\n") ELSE "No results found."

\* "Prefer structured JSON if we built it; otherwise textual summary"
answer(structured, lines) ==
    IF structured # <<>>
    THEN Dumps(JDict([i \in 1..Len(structured) |->
                        KV(structured[i].k, JList(structured[i].v))]))
    ELSE IF lines # <<>> THEN Join(lines, "\n") ELSE "No results found."

\* _aggregate(tasks, results): raised tells that the call raised instead of
\* returning <<output, sources>>
aggregate(tasks, results) ==
    With(aggregate_state(tasks, results), LAMBDA acc :
        IF acc.raised THEN [raised |-> TRUE, output |-> "", sources |-> <<>>]
        ELSE [raised |-> FALSE,
              output |-> answer(acc.structured, acc.lines),
              sources |-> acc.sources])

-----------------------------------------------------------------------------
(* Result envelopes                                                        *)

\* A call result that is already a list or a dict.
Plain(value) == [plain |-> TRUE, value |-> value, content |-> <<>>]

\* A CallToolResult with a content list.
Envelope(content) == [plain |-> FALSE, value |-> JNull, content |-> content]

\* A content item.  text is the item's text attribute (JNull when it has
\* none); loads is what json.loads(text) returns, ok = FALSE when it raises;
\* json is the item's json attribute (JNull when it has none).
Item(text, ok, loads, json) ==
    [text |-> text, loads |-> [ok |-> ok, value |-> loads], json |-> json]

\* _unwrap_mcp_result of the orchestrator; GithubMCPClient._unwrap_result
\* and JiraMCPClient._unwrap_result repeat it
unwrap_mcp_result(call_result) ==
    IF call_result.plain THEN call_result.value
    ELSE IF call_result.content # <<>>
    THEN LET first_item == call_result.content[1]
         IN  IF IsStr(first_item.text)
             THEN IF first_item.loads.ok THEN first_item.loads.value ELSE first_item.text
             ELSE IF first_item.json # JNull THEN first_item.json
             ELSE JObject
    ELSE JObject

-----------------------------------------------------------------------------
(* The process: the registry cache, the two provider clients and the chat  *)
(* requests in flight.  A coroutine runs without interruption from one     *)
(* await that suspends to the next; each action below is one such stretch. *)

Providers == {"jira", "github"}

NoTools == [jira |-> <<>>, github |-> <<>>]

\* registry._cached: None, or the map of both providers
NotCached == [set |-> FALSE, tools |-> NoTools]
Cached(tools) == [set |-> TRUE, tools |-> tools]

\* the exception classes ToolRegistry.list_tools catches
caught_by_list_tools == {"TypeError", "ValueError", "AttributeError"}

\* the output field of orchestrate's result: None, or a str
NoOutput == [none |-> TRUE, text |-> ""]
Output(text) == [none |-> FALSE, text |-> text]

\* A request slot.  error is the exception orchestrate raised and raisedIn
\* the component it came out of; did lists the components the request has
\* invoked, map is what its call of list_tools returned, after tells whether
\* that call began when some call had already returned a map, kb is the
\* extra_context the chat route handed to the knowledge-base chain.
IdleRequest ==
    [pc |-> "idle", msg |-> "", tools |-> NoTools, tasks |-> <<>>, calls |-> <<>>,
     results |-> <<>>, output |-> NoOutput, sources |-> <<>>,
     error |-> "", raisedIn |-> "",
     did |-> {}, map |-> NotCached, after |-> FALSE,
     kb |-> [called |-> FALSE, extra_context |-> ""]]


\* A listing as the provider's session returns it: a list of tool
\* descriptors, or something that is not a list.
ToolList(items) == [list |-> TRUE, items |-> items]
NotAList == [list |-> FALSE, items |-> <<>>]

\* A tool descriptor as a session lists it: a dict, an object whose
\* model_dump() or dict() returns the dict data, or an object that only has
\* the attributes name, description, input_schema and inputSchema.
DictItem(data) == [kind |-> "dict", data |-> data]
ModelItem(data) == [kind |-> "model", data |-> data]
AttrItem(data) == [kind |-> "attrs", data |-> data]

\* _normalize_tool_item
normalize_tool_item(tool) ==
    IF tool.kind = "dict" THEN tool.data
    ELSE IF tool.kind = "model" THEN tool.data
    ELSE Tool(tool.data.name, tool.data.description,
              IF tool.data.input_schema.given THEN tool.data.input_schema
              ELSE tool.data.inputSchema)

\* _normalize_tools_list
normalize_tools_list(tools) ==
    IF ~tools.list THEN <<>>
    ELSE [i \in 1..Len(tools.items) |-> normalize_tool_item(tools.items[i])]

\* refine_tool_result: the refiner's text, never empty for a non-empty raw
refine_tool_result(raw) == "refined: " \o raw

\* What one uninterrupted stretch of request r works on, and what it
\* leaves behind.
Bundle(r) ==
    [loc |-> req[r], cached |-> cached, client |-> client, listed |-> listed,
     writes |-> writes, firstMap |-> firstMap]

Commit(r, B) ==
    /\ req' = [req EXCEPT ![r] = B.loc]
    /\ cached' = B.cached
    /\ client' = B.client
    /\ listed' = B.listed
    /\ writes' = B.writes
    /\ firstMap' = B.firstMap
    /\ UNCHANGED <<settings, input, output>>

Did(B, step) == [B EXCEPT !.loc.did = @ \union {step}]

\* chat, when orchestrate raised: the route answers HTTP 500 and the
\* knowledge-base chain is not invoked
chat_error(B, exc, component) ==
    [B EXCEPT !.loc.pc = "failed", !.loc.error = exc, !.loc.raisedIn = component]

\* chat, after orchestrate returned: extra_context is refined only for a
\* truthy output, then the knowledge-base chain is invoked
chat_reply(B, out, sources) ==
    LET extra_context == IF ~out.none /\ out.text # ""
                         THEN refine_tool_result(out.text) ELSE ""
    IN  [B EXCEPT !.loc.pc = "done", !.loc.output = out, !.loc.sources = sources,
                  !.loc.kb = [called |-> TRUE, extra_context |-> extra_context]]

\* JiraMCPClient._ensure_client / GithubMCPClient._ensure_client up to the
\* await of create_all_sessions: "config" when a setting is missing,
\* "create" when the client has to be built, else the state of the client
\* that is handed out ("unready": its sessions are not established)
config_ok(provider) ==
    IF provider = "jira"
    THEN /\ settings.JIRA_URL # ""
         /\ (settings.JIRA_USERNAME # "" \/ settings.JIRA_USER_NAME # "")
         /\ settings.JIRA_API_TOKEN # ""
    ELSE settings.GITHUB_TOKEN # ""

ensure_client(cl, provider) ==
    IF cl[provider] = "none"
    THEN IF config_ok(provider) THEN "create" ELSE "config"
    ELSE cl[provider]

\* the planner's tasks and the calls _execute builds for them, in task
\* order; a jira call carries its adapted arguments from the start
Call(tasks, i) ==
    [task |-> i, provider |-> tasks[i].provider, tool |-> tasks[i].tool,
     state |-> "new", nth |-> 0,
     arguments |-> IF tasks[i].provider = "jira"
                   THEN adapt_arguments("jira", tasks[i].meta, tasks[i].args)
                   ELSE tasks[i].args,
     outcome |-> Raised("")]

RECURSIVE BuildCalls(_, _)
BuildCalls(tasks, i) ==
    IF i > Len(tasks) THEN <<>>
    ELSE IF tasks[i].provider \in Providers
         THEN <<Call(tasks, i)>> \o BuildCalls(tasks, i + 1)
         ELSE BuildCalls(tasks, i + 1)

\* A faulty variant of after_plan that goes on to _execute with an empty
\* plan; the property of C7 must tell it from after_plan.
after_plan_always_executes(B, tasks) ==
    [Did(B, "execute") EXCEPT !.loc.tasks = tasks,
                              !.loc.calls = BuildCalls(tasks, 1),
                              !.loc.pc = "gather"]

\* orchestrate from the return of list_tools to the await of gather
after_plan(B, tasks) ==
    IF tasks = <<>> THEN chat_reply([B EXCEPT !.loc.tasks = tasks], NoOutput, <<>>)
    ELSE [Did(B, "execute") EXCEPT !.loc.tasks = tasks,
                                    !.loc.calls = BuildCalls(tasks, 1),
                                    !.loc.pc = "gather"]

after_list_tools(B, tools) ==
    after_plan([Did(B, "plan") EXCEPT !.loc.tools = tools, !.loc.map = Cached(tools)],
               plan(B.loc.msg, tools))

\* list_tools stores the map and returns it
store_tools(B, tools) ==
    after_list_tools(
        [B EXCEPT !.cached = Cached(tools), !.writes = @ + 1,
                  !.firstMap = IF B.firstMap.set THEN B.firstMap ELSE Cached(tools)],
        tools)

\* the github half of list_tools, from its try to the next await; an
\* exception class outside caught_by_list_tools leaves list_tools
github_failed(B, exc) ==
    IF exc \in caught_by_list_tools
    THEN store_tools(B, [B.loc.tools EXCEPT !.github = <<>>])
    ELSE chat_error(B, exc, "list_tools")

github_session(B) ==
    IF B.client.github = "ready"
    THEN [B EXCEPT !.loc.pc = "github_list", !.listed.github = @ + 1]
    ELSE github_failed(B, "ValueError")

github_section(B0) ==
    LET B == Did(B0, "provider:github")
        e == ensure_client(B.client, "github")
    IN  IF e = "config" THEN github_failed(B, "RuntimeError")
        ELSE IF e = "create"
        THEN [B EXCEPT !.client.github = "unready", !.loc.pc = "github_create"]
        ELSE github_session(B)

\* the jira half of list_tools
jira_failed(B, exc) ==
    IF exc \in caught_by_list_tools
    THEN github_section([B EXCEPT !.loc.tools.jira = <<>>])
    ELSE chat_error(B, exc, "list_tools")

jira_session(B) ==
    IF B.client.jira = "ready"
    THEN [B EXCEPT !.loc.pc = "jira_list", !.listed.jira = @ + 1]
    ELSE jira_failed(B, "ValueError")

jira_section(B0) ==
    LET B == Did(B0, "provider:jira")
        e == ensure_client(B.client, "jira")
    IN  IF e = "config" THEN jira_failed(B, "RuntimeError")
        ELSE IF e = "create"
        THEN [B EXCEPT !.client.jira = "unready", !.loc.pc = "jira_create"]
        ELSE jira_session(B)

\* ToolRegistry.list_tools from its entry
list_tools(B0) ==
    LET B == [Did(B0, "discovery") EXCEPT !.loc.after = B0.firstMap.set]
    IN  IF B.cached.set THEN after_list_tools(B, B.cached.tools)
        ELSE jira_section(B)

\* orchestrate from its entry
orchestrate(B, user_message) ==
    LET B1 == [B EXCEPT !.loc.msg = user_message]
    IN  IF ~needs_tools(user_message) THEN chat_reply(B1, NoOutput, <<>>)
        ELSE list_tools(B1)

\* A faulty variant of gather that keeps only the outcomes of the calls that
\* returned; the property of C2 must tell it from gather.
gather_returned_only(calls) ==
    SelectSeq([k \in 1..Len(calls) |-> calls[k].outcome], LAMBDA o : ~o.exc)

\* asyncio.gather(*calls, return_exceptions=True): the outcome of every
\* call, in the order of the calls
gather(calls) == [k \in 1..Len(calls) |-> calls[k].outcome]

\* The first stretch of one call: JiraMCPClient.call_tool, or _call_github,
\* up to its first await.  cl is the state of the two clients.
start_call(c, meta, cl) ==
    LET e == ensure_client(cl, c.provider)
        arguments == IF c.provider = "github"
                     THEN adapt_arguments("github", meta, c.arguments)
                     ELSE c.arguments
    IN  IF e = "config"
        THEN [c EXCEPT !.state = "done", !.outcome = Raised("RuntimeError")]
        ELSE IF e = "create" THEN [c EXCEPT !.state = "creating"]
        ELSE IF e = "unready"
        THEN [c EXCEPT !.state = "done", !.outcome = Raised("ValueError")]
        ELSE [c EXCEPT !.state = "sent", !.arguments = arguments]

\* nth records the position of a call in the order in which the calls ended
Finished(calls) == Cardinality({k \in 1..Len(calls) : calls[k].state = "done"})

Ended(c, calls) == IF c.state = "done" THEN [c EXCEPT !.nth = Finished(calls) + 1] ELSE c

RECURSIVE start_calls(_, _)
start_calls(B, k) ==
    IF k > Len(B.loc.calls) THEN B
    ELSE LET c == Ended(start_call(B.loc.calls[k],
                                   B.loc.tasks[B.loc.calls[k].task].meta, B.client),
                        B.loc.calls)
         IN  start_calls([B EXCEPT !.loc.calls[k] = c,
                                   !.client[c.provider] =
                                       IF c.state = "creating" THEN "unready" ELSE @],
                         k + 1)

\* orchestrate from the return of gather to its own return
after_execute(B, results, agg) ==
    IF agg.raised
    THEN chat_error([Did(B, "aggregate") EXCEPT !.loc.results = results],
                    "AttributeError", "aggregate")
    ELSE chat_reply([Did(B, "aggregate") EXCEPT !.loc.results = results],
                    Output(agg.output), agg.sources)

after_gather(B) ==
    With(gather(B.loc.calls), LAMBDA results :
        after_execute(B, results, aggregate(B.loc.tasks, results)))

-----------------------------------------------------------------------------
(* The environment: configurations, messages, what the providers list and  *)
(* what their tools return.                                                *)

NumRequests == 2
Requests == 1..NumRequests

Configured ==
    [GITHUB_DEFAULT_REPOS |-> "", GITHUB_REPO_URL |-> "",
     JIRA_DEFAULT_PROJECT_KEY |-> "DOBB", JIRA_URL |-> "https://jira.example.com",
     JIRA_USERNAME |-> "bot", JIRA_USER_NAME |-> "", JIRA_API_TOKEN |-> "secret",
     GITHUB_TOKEN |-> "ghp"]

Configurations ==
    { Configured,
      [Configured EXCEPT !.JIRA_URL = ""],
      [Configured EXCEPT !.GITHUB_TOKEN = ""] }

Messages ==
    { "hello there", "what is the refund policy",
      "no jira no github tasks", "login issues and commits in repo:acme/widgets" }

JiraCatalog ==
    << Tool("jira_search_issues", "Search issues with JQL", SchemaOf(<<"jql", "maxResults">>)),
       Tool("jira_create_issue", "Create an issue",
            SchemaOf(<<"projectKey", "summary", "description", "issueType">>)) >>

GithubCatalog ==
    << Tool("search_issues", "Search issues and pull requests", SchemaOf(<<"q", "per_page">>)),
       Tool("list_commits", "List commits of a branch",
            SchemaOf(<<"owner", "repo", "sha", "perPage">>)) >>

\* what session.list_tools() of a provider can end with
Listings(provider) ==
    { [exc |-> "",
       tools |-> ToolList(IF provider = "jira"
                          THEN [i \in 1..Len(JiraCatalog) |-> DictItem(JiraCatalog[i])]
                          ELSE [i \in 1..Len(GithubCatalog) |->
                                  IF i = 1 THEN ModelItem(GithubCatalog[i])
                                  ELSE AttrItem(GithubCatalog[i])])],
      [exc |-> "", tools |-> NotAList],
      [exc |-> "ConnectionError", tools |-> NotAList] }

\* what create_all_sessions() can end with: "" when it returns
Creations == { "", "ConnectionError" }

OneIssue ==
    JDict(<< KV("issues", JList(<< JDict(<< KV("key", JStr("DOBB-1")),
                                            KV("fields", JDict(<< KV("summary", JStr("Login fails")) >>)) >>) >>)) >>)

\* what session.call_tool() of a call can end with
ToolResults(c) ==
    { [exc |-> "TimeoutError", result |-> Plain(JNull)],
      [exc |-> "",
       result |-> IF c.provider = "jira"
                  THEN Envelope(<< Item(JStr("{\"issues\": [...]}"), TRUE, OneIssue, JNull) >>)
                  ELSE Envelope(<< Item(JStr("rate limited"), FALSE, JNull, JNull) >>)] }

-----------------------------------------------------------------------------
(* Actions                                                                 *)

\* POST /chatbot/ with a message: the route runs orchestrate up to its
\* first await, or to the reply
Arrive(r) ==
    /\ req[r].pc = "idle"
    /\ \E user_message \in Messages : Commit(r, orchestrate(Bundle(r), user_message))

\* create_all_sessions of the jira client ends; list_tools goes on
JiraCreateDone(r) ==
    /\ req[r].pc = "jira_create"
    /\ \E exc \in Creations :
        Commit(r, IF exc = ""
                  THEN jira_session([Bundle(r) EXCEPT !.client.jira = "ready"])
                  ELSE jira_failed(Bundle(r), exc))

\* the jira session's list_tools ends; list_tools goes on with github
JiraListDone(r) ==
    /\ req[r].pc = "jira_list"
    /\ \E l \in Listings("jira") :
        Commit(r, IF l.exc = ""
                  THEN github_section([Bundle(r) EXCEPT
                           !.loc.tools.jira = normalize_tools_list(l.tools)])
                  ELSE jira_failed(Bundle(r), l.exc))

\* create_all_sessions of the github client ends
GithubCreateDone(r) ==
    /\ req[r].pc = "github_create"
    /\ \E exc \in Creations :
        Commit(r, IF exc = ""
                  THEN github_session([Bundle(r) EXCEPT !.client.github = "ready"])
                  ELSE github_failed(Bundle(r), exc))

\* the github session's list_tools ends; list_tools stores and returns
GithubListDone(r) ==
    /\ req[r].pc = "github_list"
    /\ \E l \in Listings("github") :
        Commit(r, IF l.exc = ""
                  THEN store_tools(Bundle(r),
                           [req[r].tools EXCEPT !.github = normalize_tools_list(l.tools)])
                  ELSE github_failed(Bundle(r), l.exc))

\* the calls that gather scheduled run, back to back, to their first await
StartCalls(r) ==
    /\ req[r].pc = "gather"
    /\ Commit(r, start_calls([Bundle(r) EXCEPT !.loc.pc = "join"], 1))

\* one call ends: the tool's result is unwrapped, or the exception kept
CallDone(r, k) ==
    /\ req[r].pc = "join"
    /\ req[r].calls[k].state \in {"sent", "creating"}
    /\ \E t \in ToolResults(req[r].calls[k]) :
        LET c == req[r].calls[k]
        IN  Commit(r, [Bundle(r) EXCEPT
                !.loc.calls[k] = Ended(
                    IF t.exc # ""
                    THEN [c EXCEPT !.state = "done", !.outcome = Raised(t.exc)]
                    ELSE IF c.state = "creating"
                    THEN [start_call(c, req[r].tasks[c.task].meta,
                                     [client EXCEPT ![c.provider] = "ready"])
                          EXCEPT !.state = "sent"]
                    ELSE [c EXCEPT !.state = "done",
                                   !.outcome = Returned(unwrap_mcp_result(t.result))],
                    req[r].calls),
                !.client[c.provider] =
                    IF t.exc = "" /\ c.state = "creating" THEN "ready" ELSE @])

\* every call has ended: gather returns, the outcomes are aggregated and
\* the route replies
GatherDone(r) ==
    /\ req[r].pc = "join"
    /\ \A k \in 1..Len(req[r].calls) : req[r].calls[k].state = "done"
    /\ Commit(r, after_gather(Bundle(r)))

vars == <<settings, cached, client, req, listed, writes, firstMap, input, output>>

Init ==
    /\ settings \in Configurations
    /\ cached = NotCached
    /\ client = [jira |-> "none", github |-> "none"]
    /\ req = [r \in Requests |-> IdleRequest]
    /\ listed = [jira |-> 0, github |-> 0]
    /\ writes = 0
    /\ firstMap = NotCached
    /\ input = <<>>
    /\ output = <<>>

Next ==
    \E r \in Requests :
        \/ Arrive(r)
        \/ JiraCreateDone(r)
        \/ JiraListDone(r)
        \/ GithubCreateDone(r)
        \/ GithubListDone(r)
        \/ StartCalls(r)
        \/ \E k \in 1..Len(req[r].calls) : CallDone(r, k)
        \/ GatherDone(r)

Spec == Init /\ [][Next]_vars

-----------------------------------------------------------------------------
(* C2: the executor gathers every outcome, in task order                   *)

\* _execute of request r has returned
Executed(r) == "aggregate" \in req[r].did

\* C2: execute returns only after every dispatched call has finished, with
\* one outcome per task, in task order: the i-th outcome is what the call of
\* the i-th task returned, or the exception it raised.  A raising call
\* removes, replaces or reorders no sibling outcome, whatever the order in
\* which the calls end.
C2_GatherInTaskOrder ==
    \A r \in Requests :
        /\ req[r].pc \in {"gather", "join"} => req[r].results = <<>>
        /\ Executed(r) =>
              /\ Len(req[r].results) = Len(req[r].tasks)
              /\ Len(req[r].calls) = Len(req[r].tasks)
              /\ \A i \in 1..Len(req[r].tasks) :
                    /\ req[r].calls[i].task = i
                    /\ req[r].calls[i].state = "done"
                    /\ req[r].results[i] = req[r].calls[i].outcome

\* three calls, the last ended first, the second raised and the siblings
\* returned afterwards: the results hold payload, exception, payload
C2_Witness ==
    \E r \in Requests :
        /\ Executed(r)
        /\ Len(req[r].calls) = 3
        /\ req[r].calls[3].nth = 1
        /\ req[r].calls[2].nth = 2
        /\ req[r].calls[1].nth = 3
        /\ ~req[r].results[1].exc
        /\ req[r].results[2].exc /\ req[r].results[2].msg = "TimeoutError"
        /\ ~req[r].results[3].exc

-----------------------------------------------------------------------------
(* C3, C4, C5: tool discovery and its cache                                *)

\* C3 (as stated): on the first call of list_tools any provider error, be it
\* missing configuration, a network failure or a malformed listing, empties
\* that provider's entry, and no provider error is raised to the caller of
\* list_tools or of orchestrate.
C3_DiscoveryAbsorbsErrors ==
    \A r \in Requests : req[r].raisedIn # "list_tools"

\* C4 (as stated): once list_tools has returned a map, every later call
\* returns that same map and contacts no provider: the map that a call
\* beginning now would return is the first map returned, and a call that
\* began after the first return has that map and has contacted no provider.
C4_CacheStable ==
    /\ firstMap.set => cached = firstMap
    /\ \A r \in Requests :
          req[r].after =>
              /\ "provider:jira" \notin req[r].did
              /\ "provider:github" \notin req[r].did
              /\ req[r].map.set => req[r].map = firstMap

\* C5 (as stated): discovery runs at most once per provider per process and
\* the cache is written once, for every interleaving of requests that begin
\* before the cache is populated.
C5_DiscoveryOnce ==
    /\ listed.jira <= 1
    /\ listed.github <= 1
    /\ writes <= 1

-----------------------------------------------------------------------------
(* C6, C7: the requests that fall back to the knowledge base               *)

\* the text holds no word of the trigger vocabulary
NoTriggerWord(text) == ~ContainsAny(Lower(text), triggers \union {"wants", "commit"})

\* C6: for a text that contains no trigger word needsTools is false, and
\* orchestrate returns {output: None} without invoking discovery, the planner
\* or the executor.
C6_NoTriggerNoTools ==
    \A r \in Requests :
        req[r].pc # "idle" /\ NoTriggerWord(req[r].msg) =>
            /\ ~needs_tools(req[r].msg)
            /\ req[r].pc = "done"
            /\ req[r].output = NoOutput
            /\ req[r].did = {}
            /\ req[r].calls = <<>>

\* a request without trigger word has been answered, another request has
\* gone through discovery meanwhile
C6_Witness ==
    \E r \in Requests :
        /\ req[r].pc = "done"
        /\ NoTriggerWord(req[r].msg)
        /\ req[r].output = NoOutput
        /\ req[r].kb.called
        /\ listed.jira + listed.github > 0

\* C7: when the planner returns an empty plan, orchestrate returns
\* {output: None} without invoking the executor or the aggregator, and the
\* chat route answers from the knowledge base with an empty extra context.
C7_EmptyPlanNoExecution ==
    \A r \in Requests :
        "plan" \in req[r].did /\ req[r].tasks = <<>> =>
            /\ req[r].pc = "done"
            /\ req[r].output = NoOutput
            /\ "execute" \notin req[r].did
            /\ "aggregate" \notin req[r].did
            /\ req[r].calls = <<>>
            /\ req[r].kb = [called |-> TRUE, extra_context |-> ""]

\* a message with a trigger word was planned into no task and answered
C7_Witness ==
    \E r \in Requests :
        /\ needs_tools(req[r].msg)
        /\ "plan" \in req[r].did
        /\ req[r].tasks = <<>>
        /\ req[r].pc = "done"
        /\ req[r].kb = [called |-> TRUE, extra_context |-> ""]

-----------------------------------------------------------------------------
(* The planner and the argument adapter on their own: a message is planned *)
(* against a tool map, then the arguments of each planned task are adapted *)
(* as _execute and _call_github adapt them.                                *)

Enforced == [Configured EXCEPT !.GITHUB_REPO_URL = "https://github.com/acme/widgets"]

PlanConfigurations == { Configured, Enforced }

\* the catalogs without their schemas
Bare(tools) == [i \in 1..Len(tools) |-> Tool(tools[i].name, tools[i].description, NoSchema)]

SearchRepositories ==
    Tool("search_repositories", "Search repositories", SchemaOf(<<"query", "perPage">>))

AliasCatalog ==
    << Tool("search_issues", "Search issues and pull requests",
            SchemaOf(<<"query", "perPage", "user", "repository">>)),
       Tool("listCommits", "List commits", SchemaOf(<<"org", "repository", "limit">>)),
       Tool("getCommit", "Get one commit", SchemaOf(<<"owner", "repo", "commit">>)) >>

\* no issue search tool on either side, and one commit tool
PartialCatalog ==
    [jira |-> << Tool("jira_create_issue", "Create an issue", NoSchema) >>,
     github |-> << Tool("get_commit", "Get one commit", SchemaOf(<<"owner", "repo", "ref">>)) >>]

PlanCatalogs ==
    { [jira |-> JiraCatalog, github |-> GithubCatalog \o <<SearchRepositories>>],
      PartialCatalog,
      [jira |-> Bare(JiraCatalog), github |-> Bare(GithubCatalog \o <<SearchRepositories>>)],
      [jira |-> JiraCatalog, github |-> AliasCatalog],
      NoTools }

CreatePhrases == { "create a bug", "Please file a bug:" }
Titles == { "Login fails", "Crash, on save", "  Slow search " }
Descriptions == { "Steps to reproduce", "first line\nsecond line" }

\* a message of the form <phrase> title - T, description - D
Labelled(phrase, T, D) == phrase \o " title - " \o T \o ", description - " \o D

NoLabels == [given |-> FALSE, T |-> "", D |-> ""]

PlanInputs ==
    { [user_message |-> Labelled(phrase, T, D), labels |-> [given |-> TRUE, T |-> T, D |-> D]] :
        phrase \in CreatePhrases, T \in Titles, D \in Descriptions }
    \union
    { [user_message |-> m, labels |-> NoLabels] :
        m \in { "tasks for login",
                "list issues in repo:other/x",
                "list repos about login",
                "show commits for repo:other/x",
                "details for commit abc1234 in repo:other/x",
                "create a bug about login issues",
                "create a bug no jira list issues",
                "only github create a ticket for commits of repo:other/x",
                "open a ticket: list repos and commits for repo:other/x",
                "list commits for repo:acme/widgets",
                "show commit details abc1234 commits history repo:acme/widgets",
                "only jira no jira tasks",
                "github only without github list issues",
                "ignore jira ignore github list issues and tasks",
                "only github only jira tasks and issues",
                "show all tasks about login timeout errors",
                "tasks about login timeout errors" } }

\* _plan(user_message, available_tools)
Plan ==
    /\ output.stage = "start"
    /\ output' = [stage |-> "planned",
                  tasks |-> plan(input.user_message, input.available_tools),
                  adapted |-> <<>>]
    /\ UNCHANGED <<settings, cached, client, req, listed, writes, firstMap, input>>

\* _adapt_arguments for the next planned task
Adapt ==
    /\ output.stage = "planned"
    /\ Len(output.adapted) < Len(output.tasks)
    /\ LET t == output.tasks[Len(output.adapted) + 1]
       IN  output' = [output EXCEPT
               !.adapted = Append(@, adapt_arguments(t.provider, t.meta, t.args))]
    /\ UNCHANGED <<settings, cached, client, req, listed, writes, firstMap, input>>

InitPlan ==
    /\ settings \in PlanConfigurations
    /\ cached = NotCached
    /\ client = [jira |-> "none", github |-> "none"]
    /\ req = [r \in Requests |-> IdleRequest]
    /\ listed = [jira |-> 0, github |-> 0]
    /\ writes = 0
    /\ firstMap = NotCached
    /\ \E i \in PlanInputs : \E available_tools \in PlanCatalogs :
           input = [user_message |-> i.user_message, labels |-> i.labels,
                    available_tools |-> available_tools]
    /\ output = [stage |-> "start", tasks |-> <<>>, adapted |-> <<>>]

NextPlan == Plan \/ Adapt

SpecPlan == InitPlan /\ [][NextPlan]_vars

-----------------------------------------------------------------------------
(* C8, C9: the direct-create branch of the planner                         *)

Planned == output.stage = "planned"

JiraAllowed == "jira" \in allowed_providers(Lower(input.user_message))

\* T holds no comma and no line break; D holds no line break
PlainTitle(T) == Strip(T) # "" /\ \A i \in 1..Len(T) : CharAt(T, i) \notin {",", "\n"}
PlainDescription(D) == Strip(D) # "" /\ \A i \in 1..Len(D) : CharAt(D, i) # "\n"

IsCreateTask(t) ==
    /\ t.provider = "jira"
    /\ Contains(Lower(t.tool), "create")
    /\ Has(t.args, "summary") /\ Has(t.args, "issue_type")

IsSearchTask(t) ==
    Has(t.args, "jql") \/ Has(t.args, "query") \/ Has(t.args, "owner") \/ Has(t.args, "ref")

\* a message "<direct-create phrase> title - T, description - D" was planned
\* with jira in the allow-list
LabelledCreate ==
    /\ Planned
    /\ input.labels.given
    /\ wants_direct_create(input.user_message)
    /\ JiraAllowed

\* C8 (as amended): for a message that contains a direct-create phrase and
\* ends with "title - T, description - D", planned while jira is in the
\* allow-list, the plan is exactly one create-issue task whose args are
\* exactly {project_key, summary, description, issue_type}: project_key is
\* the configured default project key, issue_type is "Bug", summary is T
\* stripped when T holds no comma and no line break, description is D
\* stripped when D holds no line break.
C8_DirectCreateArgs ==
    LabelledCreate =>
        /\ Len(output.tasks) = 1
        /\ IsCreateTask(output.tasks[1])
        /\ LET args == output.tasks[1].args
           IN  /\ Keys(args) = {"project_key", "summary", "description", "issue_type"}
               /\ Len(args) = 4
               /\ Get(args, "project_key") = settings.JIRA_DEFAULT_PROJECT_KEY
               /\ Get(args, "issue_type") = "Bug"
               /\ PlainTitle(input.labels.T) =>
                      Get(args, "summary") = Strip(input.labels.T)
               /\ PlainDescription(input.labels.D) =>
                      Get(args, "description") = Strip(input.labels.D)

\* a labelled message with a padded title was planned into the create task
C8_Witness ==
    /\ LabelledCreate
    /\ PlainTitle(input.labels.T) /\ Strip(input.labels.T) # input.labels.T
    /\ PlainDescription(input.labels.D)
    /\ Len(output.tasks) = 1
    /\ Get(output.tasks[1].args, "summary") = Strip(input.labels.T)
    /\ Get(output.tasks[1].args, "project_key") = "DOBB"

\* C8 (as stated): the args of the create task are exactly
\* {summary: T, description: D, issue_type: "Bug"}.
C8_Original ==
    LabelledCreate /\ PlainTitle(input.labels.T) /\ PlainDescription(input.labels.D) =>
        /\ Len(output.tasks) = 1
        /\ AsMap(output.tasks[1].args) =
              [k \in {"summary", "description", "issue_type"} |->
                  IF k = "summary" THEN Strip(input.labels.T)
                  ELSE IF k = "description" THEN Strip(input.labels.D) ELSE "Bug"]

\* C9 (as amended): when a direct-create phrase is detected and jira is in
\* the allow-list, no other planner branch runs: the plan is the single
\* create task.  When jira is excluded from the allow-list the direct-create
\* branch is skipped: the plan holds no create task and no jira task, and the
\* other branches run as for any other message.
C9_DirectCreateOnly ==
    Planned /\ wants_direct_create(input.user_message) =>
        IF JiraAllowed
        THEN Len(output.tasks) = 1 /\ IsCreateTask(output.tasks[1])
                                  /\ ~IsSearchTask(output.tasks[1])
        ELSE \A i \in 1..Len(output.tasks) :
                output.tasks[i].provider = "github" /\ ~IsCreateTask(output.tasks[i])

\* a message with a direct-create phrase that also asks for repositories and
\* commits was planned, with GitHub tools on offer, into the create task alone
C9_Witness ==
    /\ Planned /\ wants_direct_create(input.user_message) /\ JiraAllowed
    /\ Contains(Lower(input.user_message), "commits")
    /\ Contains(Lower(input.user_message), "repos")
    /\ input.available_tools.github # <<>>
    /\ Len(output.tasks) = 1 /\ IsCreateTask(output.tasks[1])

\* C9 (as stated): whenever a direct-create phrase is detected the plan holds
\* no search, repo-search, list-commits or get-commit task, for every
\* allow-list, "no jira" included.
C9_Original ==
    Planned /\ wants_direct_create(input.user_message) =>
        \A i \in 1..Len(output.tasks) : ~IsSearchTask(output.tasks[i])

-----------------------------------------------------------------------------
(* C10: repository enforcement in the argument adapter                     *)

AcmeToken == "repo:acme/widgets"

AcmeEnforced == settings.GITHUB_REPO_URL = "https://github.com/acme/widgets"

\* the planned GitHub tasks whose arguments have been adapted
AdaptedGithub ==
    {k \in 1..Len(output.adapted) : output.tasks[k].provider = "github"}

SchemaKeysOf(k) == extract_schema_keys(output.tasks[k].meta)
QueryKeyOf(k) == choose_key(SchemaKeysOf(k), <<"query", "q">>, "query")
OwnerKeyOf(k) == choose_key(SchemaKeysOf(k), <<"owner", "user", "org">>, "owner")
RepoKeyOf(k) == choose_key(SchemaKeysOf(k), <<"repo", "repository">>, "repo")

-----------------------------------------------------------------------------
(* The aggregator on its own: tasks end one after the other with an        *)
(* outcome, then _aggregate runs over the tasks and their outcomes.        *)

MaxTasks == 3

AggTasks ==
    { Task("jira", "jira_search_issues", NoneMeta, <<>>),
      Task("github", "search_issues", NoneMeta, <<>>),
      Task("github", "list_commits", NoneMeta, <<>>) }

OneGithubIssue ==
    JDict(<< KV("items", JList(<< JDict(<< KV("number", JNum(7)),
                                           KV("title", JStr("Login bug")),
                                           KV("html_url", JStr("https://github.com/acme/widgets/issues/7")) >>) >>)) >>)

OneCommit ==
    JList(<< JDict(<< KV("sha", JStr("abc1234")),
                      KV("commit", JDict(<< KV("message", JStr("fix login")) >>)) >>) >>)

\* an issue list that holds a key instead of an issue object
IssueKeysOnly == JDict(<< KV("issues", JList(<< JStr("DOBB-2") >>)) >>)

RECURSIVE Repeat(_, _)
Repeat(s, n) == IF n = 0 THEN "" ELSE s \o Repeat(s, n - 1)

\* a summary longer than a content preview may be
LongSummary == Repeat("0123456789", 21)

\* a search result with two issues: one with key, summary and self link, one
\* with neither key nor link and its summary under fields
TwoIssues ==
    JDict(<< KV("issues", JList(<<
        JDict(<< KV("key", JStr("X-1")), KV("summary", JStr("S")),
                 KV("self", JStr("http://x")) >>),
        JDict(<< KV("id", JStr("10002")),
                 KV("fields", JDict(<< KV("summary", JStr("T")) >>)) >>) >>)) >>)

\* a search result with six issues, the first with a long summary
SixIssues ==
    JDict(<< KV("issues", JList(
        [k \in 1..6 |->
            JDict(<< KV("key", JStr("L-" \o ToString(k))),
                     KV("fields", JDict(<< KV("summary",
                            JStr(IF k = 1 THEN LongSummary ELSE "short")) >>)) >>)])) >>)

NoIssues == JDict(<< KV("issues", JList(<<>>)) >>)

\* the payloads a call of task t can return
AggPayloads(t) ==
    IF t.provider = "jira"
    THEN { OneIssue, JList(<<>>), JStr("rate limited"), IssueKeysOnly,
           TwoIssues, SixIssues, NoIssues }
    ELSE IF t.tool = "search_issues"
    THEN { OneGithubIssue, JList(<<>>) }
    ELSE { OneCommit, JStr("rate limited") }

AggOutcomes(t) == { Raised("timed out") } \union { Returned(payload) : payload \in AggPayloads(t) }

\* one more task of the plan has ended with outcome r
TaskEnds ==
    /\ output.stage = "start"
    /\ Len(input.tasks) < MaxTasks
    /\ \E t \in AggTasks : \E r \in AggOutcomes(t) :
           input' = [tasks |-> Append(input.tasks, t), results |-> Append(input.results, r)]
    /\ UNCHANGED <<settings, cached, client, req, listed, writes, firstMap, output>>

\* _aggregate(tasks, results)
Aggregate ==
    /\ output.stage = "start"
    /\ output' = [stage |-> "aggregated",
                  agg |-> aggregate(input.tasks, input.results),
                  acc |-> aggregate_state(input.tasks, input.results)]
    /\ UNCHANGED <<settings, cached, client, req, listed, writes, firstMap, input>>

\* the Jira base URL with a trailing slash, and none
AggConfigurations ==
    { [Configured EXCEPT !.JIRA_URL = "https://jira.example.com/"],
      [Configured EXCEPT !.JIRA_URL = ""] }

InitAgg ==
    /\ settings \in AggConfigurations
    /\ cached = NotCached
    /\ client = [jira |-> "none", github |-> "none"]
    /\ req = [r \in Requests |-> IdleRequest]
    /\ listed = [jira |-> 0, github |-> 0]
    /\ writes = 0
    /\ firstMap = NotCached
    /\ input = [tasks |-> <<>>, results |-> <<>>]
    /\ output = [stage |-> "start",
                 agg |-> [raised |-> FALSE, output |-> "", sources |-> <<>>],
                 acc |-> [lines |-> <<>>, sources |-> <<>>, structured |-> <<>>,
                          raised |-> FALSE]]

NextAgg == TaskEnds \/ Aggregate

SpecAgg == InitAgg /\ [][NextAgg]_vars

-----------------------------------------------------------------------------
(* C1: partial failure in the aggregator                                   *)

\* three tasks were aggregated, exactly one of them had raised
OneOfThreeRaised ==
    /\ output.stage = "aggregated"
    /\ Len(input.tasks) = 3
    /\ Cardinality({i \in 1..3 : input.results[i].exc}) = 1

Succeeded == {i \in 1..Len(input.tasks) : ~input.results[i].exc}

RecordsOf(i) == normalized(input.tasks[i], input.results[i].payload).records

LineOf(i) ==
    IF input.results[i].exc
    THEN input.tasks[i].provider \o "." \o input.tasks[i].tool \o ": error "
         \o input.results[i].msg
    ELSE input.tasks[i].provider \o "." \o input.tasks[i].tool \o ": "
         \o ToString(count(input.results[i].payload)) \o " results"

\* a successful payload lists, as an issue, something that is not a dict
ListsNonDictIssue(i) ==
    LET r == input.results[i].payload
        issues == IF IsList(r) /\ r.l # <<>> /\ IsDict(r.l[1]) THEN JGet(r.l[1], "issues")
                  ELSE IF IsDict(r) THEN JGet(r, "issues") ELSE JNull
    IN  IsList(issues) /\ \E j \in 1..Len(issues.l) : ~IsDict(issues.l[j])

\* C1 (as amended): when one of three tasks raises and the other two return
\* payloads, then, if no successful payload yields a record of a structured
\* bucket, the output of aggregate is the three lines in task order, a
\* "provider.tool: N results" line for each successful task and the line
\* "provider.tool: error <message>" for the failed one; if a successful
\* payload yields a record, the output is the serialized bucket map, which
\* holds every record of the successful payloads and none of the lines, the
\* error line included.  aggregate raises instead of returning only when a
\* successful payload lists an issue that is not a dict.
C1_PartialFailure ==
    OneOfThreeRaised =>
        IF output.agg.raised THEN \E i \in Succeeded : ListsNonDictIssue(i)
        ELSE IF \A i \in Succeeded : RecordsOf(i) = <<>>
        THEN output.agg.output = LineOf(1) \o "\n" \o LineOf(2) \o "\n" \o LineOf(3)
        ELSE /\ \A i \in 1..3 : ~Contains(output.agg.output, LineOf(i))
             /\ \A i \in Succeeded : \A j \in 1..Len(RecordsOf(i)) :
                    Contains(output.agg.output, Dumps(RecordsOf(i)[j]))

\* one of three raised, a sibling produced a record, and the output is the
\* bucket map without the error line
C1_Witness ==
    /\ OneOfThreeRaised
    /\ ~output.agg.raised
    /\ \E i \in Succeeded : RecordsOf(i) # <<>>
    /\ \E i \in 1..3 : input.results[i].exc /\ ~Contains(output.agg.output, LineOf(i))

\* C1 (as stated): the output holds the results of the two successful tasks
\* and the error line of the failed one, whether or not a successful payload
\* produced a record of a structured bucket (read for the calls of aggregate
\* that return).
C1_Original ==
    OneOfThreeRaised /\ ~output.agg.raised =>
        \A i \in 1..3 :
            IF input.results[i].exc \/ RecordsOf(i) = <<>>
            THEN Contains(output.agg.output, LineOf(i))
            ELSE \A j \in 1..Len(RecordsOf(i)) :
                    Contains(output.agg.output, Dumps(RecordsOf(i)[j]))

-----------------------------------------------------------------------------
(* The argument adapter on its own: _adapt_arguments is applied to a       *)
(* provider, a tool descriptor and logical arguments.  Schema property     *)
(* names are pairwise distinct ignoring case, as the names of the argument *)
(* schemas of the two servers are.                                         *)

AdaptProviders == { "jira", "github", "gitlab" }

\* a descriptor that declares its schema under the key inputSchema
CamelSchemaTool(props) == [Tool("t", "", NoSchema) EXCEPT !.inputSchema = SchemaOf(props)]

AdaptMetas ==
    { NoneMeta,
      Tool("t", "", NoSchema),
      Tool("t", "", SchemaOf(<<>>)),
      Tool("t", "", SchemaOf(<<"jql", "maxResults">>)),
      Tool("t", "", SchemaOf(<<"jql", "limit">>)),
      Tool("t", "", SchemaOf(<<"query", "maxResults", "projectKey", "issueType">>)),
      Tool("t", "", SchemaOf(<<"q", "per_page">>)),
      CamelSchemaTool(<<"owner", "repo", "perPage", "sha">>) }

\* the logical arguments tried, one dict per entry
AdaptIntended ==
    << <<>>,
       << KV("jql", "(text ~ login)"), KV("limit", 10) >>,
       << KV("limit", 0), KV("jql", "(text ~ login)") >>,
       << KV("jql", "(text ~ login)"), KV("maxResults", max_results) >>,
       << KV("jql", "(text ~ login)"), KV("maxResults", max_results), KV("limit", 10) >>,
       << KV("project_key", "DOBB"), KV("summary", "Login fails"),
          KV("description", "Steps"), KV("issue_type", "Bug") >>,
       << KV("query", "is:pr login"), KV("perPage", max_results) >>,
       << KV("query", "is:pr login"), KV("limit", 10), KV("page", 2) >>,
       << KV("owner", "other"), KV("repo", "x"), KV("ref", "abc1234") >> >>

\* _adapt_arguments(provider, tool_meta, intended_args)
AdaptArguments ==
    /\ output.stage = "start"
    /\ output' = [stage |-> "adapted",
                  args |-> adapt_arguments(input.provider, input.tool_meta,
                                           input.intended_args)]
    /\ UNCHANGED <<settings, cached, client, req, listed, writes, firstMap, input>>

InitAdapt ==
    /\ settings \in PlanConfigurations
    /\ cached = NotCached
    /\ client = [jira |-> "none", github |-> "none"]
    /\ req = [r \in Requests |-> IdleRequest]
    /\ listed = [jira |-> 0, github |-> 0]
    /\ writes = 0
    /\ firstMap = NotCached
    /\ \E provider \in AdaptProviders : \E tool_meta \in AdaptMetas :
       \E n \in 1..Len(AdaptIntended) :
           input = [provider |-> provider, tool_meta |-> tool_meta,
                    intended_args |-> AdaptIntended[n]]
    /\ output = [stage |-> "start", args |-> <<>>]

NextAdapt == AdaptArguments

SpecAdapt == InitAdapt /\ [][NextAdapt]_vars

-----------------------------------------------------------------------------
(* C11: the schema filter of the argument adapter                          *)

Adapted == output.stage = "adapted"

SchemaNames == {extract_schema_keys(input.tool_meta)[i] :
                    i \in 1..Len(extract_schema_keys(input.tool_meta))}

\* the logical keys the GitHub block of the adapter copies
GithubLogical ==
    {"query", "perPage", "limit", "owner", "repo", "sha", "ref", "path", "order", "sort", "page"}

\* the keys the adapter assembles when no schema is known: every logical key
\* for an unknown provider; for the issue tracker every logical key, and
\* maxResults when "limit" is given (the pass-through sends limit as well);
\* for GitHub the logical keys it copies ("limit" under perPage), and owner
\* and repo when a repository is enforced
AssembledNoSchema ==
    IF input.provider = "jira"
    THEN Keys(input.intended_args)
         \union (IF Has(input.intended_args, "limit") THEN {"maxResults"} ELSE {})
    ELSE IF input.provider = "github"
    THEN {IF k = "limit" THEN "perPage" ELSE k : k \in Keys(input.intended_args) \cap GithubLogical}
         \union (IF settings.GITHUB_REPO_URL # "" THEN {"owner", "repo"} ELSE {})
    ELSE Keys(input.intended_args)

\* C11: for every provider and all logical arguments, when the descriptor's
\* schema property names are known (non-empty) every key of the adapted
\* arguments is one of them; when no schema is known no assembled key is
\* dropped: the adapted arguments hold every key the adapter assembles.
C11_SchemaFilter ==
    Adapted =>
        IF SchemaNames # {} THEN Keys(output.args) \subseteq SchemaNames
        ELSE Keys(output.args) = AssembledNoSchema

\* a schema is known and the filter dropped a logical key that the adapter
\* had assembled under its own name
C11_Witness ==
    /\ Adapted
    /\ input.provider = "jira"
    /\ SchemaNames = {"jql", "maxResults"}
    /\ Has(input.intended_args, "summary")
    /\ output.args = <<>>

-----------------------------------------------------------------------------
(* C12: the "limit" fallback of the issue-tracker block                    *)

\* C12: for the issue tracker, when the schema exposes maxResults and not
\* limit, adapting logical arguments {jql, limit: N} yields arguments that
\* hold maxResults with value N and no key limit.
C12_LimitAsMaxResults ==
    /\ Adapted
    /\ input.provider = "jira"
    /\ "maxResults" \in SchemaNames
    /\ "limit" \notin SchemaNames
    /\ Keys(input.intended_args) = {"jql", "limit"}
    => /\ Has(output.args, "maxResults")
       /\ Get(output.args, "maxResults") = Get(input.intended_args, "limit")
       /\ ~Has(output.args, "limit")

\* {jql, limit: 10} was adapted for a schema {jql, maxResults}
C12_Witness ==
    /\ Adapted
    /\ input.provider = "jira"
    /\ SchemaNames = {"jql", "maxResults"}
    /\ input.intended_args = << KV("jql", "(text ~ login)"), KV("limit", 10) >>
    /\ output.args = << KV("jql", "(text ~ login)"), KV("maxResults", 10) >>

-----------------------------------------------------------------------------
(* C13: commit history and single commit lookup                            *)

\* the planner's commit-history task: owner, repo and a page size
IsHistoryTask(t) ==
    /\ t.provider = "github"
    /\ Keys(t.args) = {"owner", "repo", "perPage"}

\* the planner's single-commit lookup task: owner, repo and a ref
IsLookupTask(t) ==
    /\ t.provider = "github"
    /\ Keys(t.args) = {"owner", "repo", "ref"}

HistoryTasks == {k \in 1..Len(output.tasks) : IsHistoryTask(output.tasks[k])}
LookupTasks == {k \in 1..Len(output.tasks) : IsLookupTask(output.tasks[k])}

\* the text asks for commits and its first repo: token is repo:acme/widgets
AsksAcmeCommits(text) ==
    /\ Contains(text, "commits")
    /\ \E i \in 1..Len(text) :
          /\ MatchAt(text, i, AcmeToken)
          /\ CharAt(text, i + Len(AcmeToken)) \notin RepoCharSet
          /\ \A j \in 1..(i - 1) : ~MatchAt(text, j, "repo:")

\* C13: no plan holds both a commit-history task and a single-commit lookup
\* task.  When specific-commit intent holds (a hex token of 7 to 40
\* characters together with a commit-reference phrase) the plan holds no
\* history task, whatever "commits"/"history" words the text has.  When it
\* does not hold and the text asks for commits with repo:acme/widgets, every
\* history task carries owner "acme" and repo "widgets", and there is one
\* when GitHub is allowed, a commit listing tool resolves and the plan is not
\* a direct-create plan.
C13_HistoryOrLookup ==
    Planned =>
        LET text == Lower(input.user_message)
            specific == specific_commit_intent(text)
        IN  /\ HistoryTasks = {} \/ LookupTasks = {}
            /\ specific => HistoryTasks = {}
            /\ ~specific /\ AsksAcmeCommits(text) =>
                   /\ \A k \in HistoryTasks :
                          /\ Get(output.tasks[k].args, "owner") = "acme"
                          /\ Get(output.tasks[k].args, "repo") = "widgets"
                   /\ /\ "github" \in allowed_providers(text)
                      /\ ~wants_direct_create(input.user_message)
                      /\ resolve_tool_name(input.available_tools.github,
                                           <<"list_commits", "listCommits">>,
                                           <<"commit">>) # NoneStr
                      => Cardinality(HistoryTasks) = 1

\* the text names a SHA with "show commit" and has the words "commits" and
\* "history": the plan holds the lookup task and no history task
C13_Witness ==
    /\ Planned
    /\ specific_commit_intent(Lower(input.user_message))
    /\ ContainsAny(Lower(input.user_message), {"commits", "history"})
    /\ HistoryTasks = {}
    /\ \E k \in LookupTasks :
          /\ Get(output.tasks[k].args, "ref") = "abc1234"
          /\ Get(output.tasks[k].args, "owner") = "acme"

-----------------------------------------------------------------------------
(* C14: issue-tracker payloads of the shape {issues: [...]}                *)

Aggregated == output.stage = "aggregated"

\* task i returned a payload {issues: [i1..in]} whose issues are all objects
IssuesShape(i) ==
    LET r == input.results[i].payload
    IN  /\ ~input.results[i].exc
        /\ input.tasks[i].provider = "jira"
        /\ IsDict(r)
        /\ Keys(r.d) = {"issues"}
        /\ IsList(JGet(r, "issues"))
        /\ \A k \in 1..Len(JGet(r, "issues").l) : IsDict(JGet(r, "issues").l[k])

IssuesOf(i) == JGet(input.results[i].payload, "issues").l

\* the summary of an issue: its own, else the one under its fields
SummaryOf(issue) ==
    IF Truthy(JGet(issue, "summary")) THEN JGet(issue, "summary")
    ELSE IF IsDict(JGet(issue, "fields")) /\ Truthy(JGet(JGet(issue, "fields"), "summary"))
    THEN JGet(JGet(issue, "fields"), "summary")
    ELSE JStr("")

\* the issue has a key and a base URL is configured, or it has a self or url link
HasLink(issue) ==
    \/ Truthy(JGet(issue, "key")) /\ settings.JIRA_URL # ""
    \/ Truthy(JGet(issue, "self"))
    \/ Truthy(JGet(issue, "url"))

\* the number of records the issue-tracker tasks before task i added
RECURSIVE JiraRecordsBefore(_)
JiraRecordsBefore(i) ==
    IF i <= 1 THEN 0
    ELSE JiraRecordsBefore(i - 1)
         + (IF ~input.results[i - 1].exc /\ input.tasks[i - 1].provider = "jira"
            THEN Len(RecordsOf(i - 1)) ELSE 0)

\* C14: when aggregate returns, each issue-tracker payload of the shape
\* {issues: [i1..in]} whose issues are all objects has added exactly n
\* records to the jira_issues bucket, in order; record k carries the key and
\* the summary of issue k, and a non-empty url whenever the issue has a key
\* and a base URL is configured, or a self or url link.
C14_IssuesRoundTrip ==
    Aggregated /\ ~output.agg.raised =>
        \A i \in 1..Len(input.tasks) : IssuesShape(i) =>
            LET issues == IssuesOf(i)
                bucket == Bucket(output.acc.structured, "jira_issues")
                at == JiraRecordsBefore(i)
            IN  /\ Len(RecordsOf(i)) = Len(issues)
                /\ Len(bucket) >= at + Len(issues)
                /\ JiraRecordsBefore(Len(input.tasks) + 1) = Len(bucket)
                /\ \A k \in 1..Len(issues) :
                      /\ bucket[at + k] = RecordsOf(i)[k]
                      /\ JGet(bucket[at + k], "key") = JGet(issues[k], "key")
                      /\ JGet(bucket[at + k], "summary") = SummaryOf(issues[k])
                      /\ HasLink(issues[k]) =>
                             /\ IsStr(JGet(bucket[at + k], "url"))
                             /\ JGet(bucket[at + k], "url").s # ""

\* a payload with the issues X-1 (summary S, self link) and 10002 was
\* aggregated after another issue-tracker payload: the bucket holds its two
\* records behind the earlier one
C14_Witness ==
    /\ Aggregated
    /\ ~output.agg.raised
    /\ Len(input.tasks) = 2
    /\ IssuesShape(1) /\ Len(IssuesOf(1)) = 1
    /\ IssuesShape(2) /\ input.results[2].payload = TwoIssues
    /\ LET bucket == Bucket(output.acc.structured, "jira_issues")
       IN  /\ Len(bucket) = 3
           /\ JGet(bucket[2], "key") = JStr("X-1")
           /\ JGet(bucket[2], "summary") = JStr("S")
           /\ JGet(bucket[2], "url").s # ""
           /\ JGet(bucket[3], "summary") = JStr("T")

-----------------------------------------------------------------------------
(* C15: the final result of the aggregator                                 *)

\* the serialized bucket map
BucketMap ==
    Dumps(JDict([i \in 1..Len(output.acc.structured) |->
                    KV(output.acc.structured[i].k, JList(output.acc.structured[i].v))]))

\* the textual lines, one per task, joined by line breaks
JoinedLines == Join([i \in 1..Len(input.tasks) |-> LineOf(i)], "\n")

\* what C15 says of a call of aggregate that returned
FinalResult ==
    /\ IF \E i \in Succeeded : RecordsOf(i) # <<>>
       THEN output.agg.output = BucketMap
       ELSE IF input.tasks = <<>>
       THEN output.agg.output = "No results found."
       ELSE output.agg.output = JoinedLines
    /\ output.agg.output = "No results found." <=> input.tasks = <<>>
    /\ \A b \in 1..Len(output.acc.structured) : output.acc.structured[b].v # <<>>
    /\ (output.acc.structured # <<>>) <=> (\E i \in Succeeded : RecordsOf(i) # <<>>)

\* C15: aggregate returns the serialized bucket map when at least one bucket
\* is non-empty, otherwise the textual lines, one per task, joined by line
\* breaks, and "No results found." exactly when there is no task; a bucket
\* key is in the map only with a non-empty record list.
C15_FinalResult ==
    Aggregated => ~output.agg.raised /\ FinalResult

\* C15, for the calls of aggregate that return: the result is as C15 says.
C15_FinalResultWhenReturned ==
    Aggregated /\ ~output.agg.raised => FinalResult

-----------------------------------------------------------------------------
(* C16: what a task contributes to the buckets and the citations           *)

\* the state of _aggregate after the first i (task, outcome) pairs
AfterPairs(i) == aggregate_state(SubSeq(input.tasks, 1, i), SubSeq(input.results, 1, i))

\* the number of citations pair i contributed
Citations(i) == Len(AfterPairs(i).sources) - Len(AfterPairs(i - 1).sources)

\* C16: when aggregate returns, a failed outcome has contributed no record
\* to any bucket and no citation, each non-failed task has contributed at
\* most 5 citations, every citation's ordinal id lies in 1..5 and every
\* content preview is at most 200 characters long.
C16_Contributions ==
    Aggregated /\ ~output.agg.raised =>
        /\ output.agg.sources = AfterPairs(Len(input.tasks)).sources
        /\ \A i \in 1..Len(input.tasks) :
              /\ input.results[i].exc =>
                     /\ Citations(i) = 0
                     /\ AfterPairs(i).structured = AfterPairs(i - 1).structured
              /\ Citations(i) \in 0..max_sources
        /\ \A c \in 1..Len(output.agg.sources) :
              /\ output.agg.sources[c].chunk_id \in 1..max_sources
              /\ Len(output.agg.sources[c].content_preview) <= preview_max_len

\* a payload of six issues, the first with a summary of 210 characters, was
\* aggregated next to a failed task: five citations, numbered 1 to 5, the
\* first with a preview of 200 characters
C16_Witness ==
    /\ Aggregated
    /\ ~output.agg.raised
    /\ Len(input.tasks) = 2
    /\ input.results[1].exc
    /\ ~input.results[2].exc /\ input.results[2].payload = SixIssues
    /\ Len(output.agg.sources) = max_sources
    /\ \A c \in 1..max_sources : output.agg.sources[c].chunk_id = c
    /\ Len(output.agg.sources[1].content_preview) = preview_max_len

-----------------------------------------------------------------------------
(* The resolver on its own: _resolve_tool_name is applied to a catalog,    *)
(* preferred names and required tokens.  Every tool has a name, and the    *)
(* token list is never empty: _plan passes one with every call.            *)

ResolveCatalogs ==
    { <<>>,
      << Tool("list_commits", "List commits", NoSchema),
         Tool("get_commit", "Get one commit", NoSchema),
         Tool("Search_Issues", "Find things", NoSchema) >>,
      << Tool("find", "Search an issue tracker", NoSchema),
         Tool("issue_search_tool", "", NoSchema) >>,
      << Tool("searchIssues", "x", NoSchema),
         Tool("search_issues", "y", NoSchema) >>,
      << Tool("Get_Commit", "a", NoSchema),
         Tool("get_commit", "b", NoSchema),
         Tool("new_ticket", "Create an issue", NoSchema) >> }

ResolvePreferred ==
    { <<"search_issues", "searchIssues">>,
      <<"searchIssues", "search_issues">>,
      <<"get_commit", "getCommit">>,
      <<"GET_COMMIT">>,
      <<"create_issue">> }

ResolveTokens == { <<"search", "issue">>, <<"commit">>, <<"create", "issue">> }

\* _resolve_tool_name(tools, preferred_names, required_tokens)
Resolve ==
    /\ output.stage = "start"
    /\ output' = [stage |-> "resolved",
                  name |-> resolve_tool_name(input.tools, input.preferred_names,
                                             input.required_tokens)]
    /\ UNCHANGED <<settings, cached, client, req, listed, writes, firstMap, input>>

InitResolve ==
    /\ settings = Configured
    /\ cached = NotCached
    /\ client = [jira |-> "none", github |-> "none"]
    /\ req = [r \in Requests |-> IdleRequest]
    /\ listed = [jira |-> 0, github |-> 0]
    /\ writes = 0
    /\ firstMap = NotCached
    /\ \E tools \in ResolveCatalogs : \E preferred_names \in ResolvePreferred :
       \E required_tokens \in ResolveTokens :
           input = [tools |-> tools, preferred_names |-> preferred_names,
                    required_tokens |-> required_tokens]
    /\ output = [stage |-> "start", name |-> NoneStr]

NextResolve == Resolve

SpecResolve == InitResolve /\ [][NextResolve]_vars

-----------------------------------------------------------------------------
(* C17: the resolution order                                               *)

Resolved == output.stage = "resolved"

\* the preferred names that some tool bears, ignoring case
PreferredBorne ==
    {k \in 1..Len(input.preferred_names) :
        \E i \in 1..Len(input.tools) :
            Lower(input.tools[i].name) = Lower(input.preferred_names[k])}

\* text holds every required token
HoldsTokens(text) ==
    \A k \in 1..Len(input.required_tokens) : Contains(text, input.required_tokens[k])

\* the tools whose lower-cased name and description hold every token
ByNameAndDescription ==
    {i \in 1..Len(input.tools) :
        HoldsTokens(Lower(input.tools[i].name \o " " \o input.tools[i].description))}

\* the tools whose lower-cased name alone holds every token
ByName == {i \in 1..Len(input.tools) : HoldsTokens(Lower(input.tools[i].name))}

Least(S) == CHOOSE x \in S : \A y \in S : x <= y

\* C17: resolve returns a tool that bears, ignoring case, the first preferred
\* name (in the order of the preferred names, not of the catalog) that any
\* tool bears; else the name of the first tool of the catalog whose
\* lower-cased name and description hold every required token; else the
\* name of the first tool whose lower-cased name alone holds every token;
\* else none.  Every result other than none is the name of a tool of the
\* catalog.
C17_ResolutionOrder ==
    Resolved =>
        /\ IF PreferredBorne # {}
           THEN Lower(output.name) = Lower(input.preferred_names[Least(PreferredBorne)])
           ELSE IF ByNameAndDescription # {}
           THEN output.name = input.tools[Least(ByNameAndDescription)].name
           ELSE IF ByName # {}
           THEN output.name = input.tools[Least(ByName)].name
           ELSE output.name = NoneStr
        /\ output.name # NoneStr =>
               \E i \in 1..Len(input.tools) : input.tools[i].name = output.name

\* the catalog lists searchIssues before search_issues and the preferred
\* names are search_issues, searchIssues: the result is search_issues
C17_Witness ==
    /\ Resolved
    /\ Len(input.tools) = 2
    /\ input.tools[1].name = "searchIssues"
    /\ input.preferred_names = <<"search_issues", "searchIssues">>
    /\ output.name = "search_issues"

-----------------------------------------------------------------------------
(* C18: the planner never fabricates a tool name                           *)

\* the plan is the one of the direct-create branch
DirectCreatePlan == JiraAllowed /\ wants_direct_create(input.user_message)

\* tool t of the catalog of a provider
InCatalog(provider, t) ==
    \E i \in 1..Len(input.available_tools[provider]) :
        input.available_tools[provider][i] = t

\* C18: in a plan that is not a direct-create plan, each task's tool name is
\* the name of a tool of the catalog of the task's provider and the task
\* carries that tool's descriptor, never none; a provider without a search
\* tool gets no search task.  The direct-create plan is one task that
\* carries either a tool of the catalog with its descriptor or the fixed
\* name "jira_create_issue" with no descriptor.
C18_NoFabricatedTool ==
    Planned =>
        IF DirectCreatePlan
        THEN /\ Len(output.tasks) = 1
             /\ LET t == output.tasks[1]
                IN  \/ t.meta # NoneMeta /\ t.meta.name = t.tool /\ InCatalog("jira", t.meta)
                    \/ /\ t.meta = NoneMeta
                       /\ t.tool = "jira_create_issue"
                       /\ \A i \in 1..Len(input.available_tools.jira) :
                              ~Contains(Lower(input.available_tools.jira[i].name
                                              \o " " \o input.available_tools.jira[i].description),
                                        "create")
        ELSE \A k \in 1..Len(output.tasks) :
                LET t == output.tasks[k]
                IN  /\ t.meta # NoneMeta
                    /\ t.meta.name = t.tool
                    /\ InCatalog(t.provider, t.meta)

\* the catalogs hold no issue search tool and one commit tool: the text
\* "show commits for repo:other/x" plans no issue-tracker task, and its
\* commit-history task carries the commit tool of the catalog
C18_Witness ==
    /\ Planned
    /\ input.available_tools = PartialCatalog
    /\ input.user_message = "show commits for repo:other/x"
    /\ JiraAllowed
    /\ Len(output.tasks) = 1
    /\ IsHistoryTask(output.tasks[1])
    /\ output.tasks[1].tool = "get_commit"
    /\ output.tasks[1].meta = PartialCatalog.github[1]

-----------------------------------------------------------------------------
(* C19: the provider allow-list                                            *)

\* an exclusive phrase for provider X is in the text
Exclusive(text, X) == ContainsAny(text, {"only " \o X, X \o " only", "consider only " \o X})

\* an exclusion phrase for provider X is in the text
Excluded(text, X) == ContainsAny(text, {"no " \o X, "without " \o X, "ignore " \o X})

\* C19: the allow-list of a text starts as {jira, github}.  When the text
\* holds an exclusive phrase ("only X", "X only", "consider only X") the
\* allow-list is the provider of that phrase alone, whatever exclusion
\* phrases ("no X", "without X", "ignore X") it also holds, an exclusion of
\* that same provider included (the issue tracker's exclusive phrases are
\* looked for first).  Otherwise each excluded provider is removed, and
\* excluding both gives the empty set and an empty plan.  Every planned task
\* is for a provider of the allow-list.
C19_AllowList ==
    Planned =>
        LET text == Lower(input.user_message)
            allowed == allowed_providers(text)
        IN  /\ Exclusive(text, "jira") => allowed = {"jira"}
            /\ Exclusive(text, "github") /\ ~Exclusive(text, "jira") => allowed = {"github"}
            /\ ~Exclusive(text, "jira") /\ ~Exclusive(text, "github") =>
                   allowed = {X \in {"jira", "github"} : ~Excluded(text, X)}
            /\ allowed = {} => output.tasks = <<>>
            /\ \A k \in 1..Len(output.tasks) : output.tasks[k].provider \in allowed

\* "only jira no jira tasks": the exclusive phrase wins over the exclusion of
\* the same provider, and the plan is the issue-tracker search
C19_Witness ==
    /\ Planned
    /\ Exclusive(Lower(input.user_message), "jira")
    /\ Excluded(Lower(input.user_message), "jira")
    /\ allowed_providers(Lower(input.user_message)) = {"jira"}
    /\ Len(output.tasks) = 1
    /\ output.tasks[1].provider = "jira"

-----------------------------------------------------------------------------
(* The repository filter extraction on its own: _parse_repo_filters is     *)
(* applied to a text that names the pairs input.pairs, each in a token     *)
(* repo:OWNER/NAME, under a configuration of default repositories and of   *)
(* the single repository URL.                                              *)

RepoConfigurations ==
    { [Configured EXCEPT !.GITHUB_DEFAULT_REPOS = d, !.GITHUB_REPO_URL = u] :
        d \in { "", "other/x, ACME/widgets", " zed/z ,,acme/widgets" },
        u \in { "", "https://github.com/acme/widgets", "https://github.com/Zed/Z" } }

RepoPairs ==
    { <<>>,
      <<"acme/widgets">>,
      <<"other/x", "acme/widgets">>,
      <<"Acme/Widgets", "acme/widgets">>,
      <<"a.b/c-d", "zed/z", "A.B/c-d">> }

\* the words put in front of each pair
RepoWords == { <<"commits in repo:", " and repo:", " and repo:">>,
               <<"REPO:", ", then Repo:", " or rePO:">> }

\* the text that names the pairs, each behind its words
RECURSIVE Naming(_, _, _)
Naming(words, pairs, i) ==
    IF i > Len(pairs) THEN " please"
    ELSE words[i] \o pairs[i] \o Naming(words, pairs, i + 1)

\* _parse_repo_filters(user_message)
ParseRepoFilters ==
    /\ output.stage = "start"
    /\ output' = [stage |-> "parsed", repos |-> parse_repo_filters(input.user_message)]
    /\ UNCHANGED <<settings, cached, client, req, listed, writes, firstMap, input>>

InitRepos ==
    /\ settings \in RepoConfigurations
    /\ cached = NotCached
    /\ client = [jira |-> "none", github |-> "none"]
    /\ req = [r \in Requests |-> IdleRequest]
    /\ listed = [jira |-> 0, github |-> 0]
    /\ writes = 0
    /\ firstMap = NotCached
    /\ \E pairs \in RepoPairs : \E words \in RepoWords :
           input = [user_message |-> Naming(words, pairs, 1), pairs |-> pairs]
    /\ output = [stage |-> "start", repos |-> <<>>]

NextRepos == ParseRepoFilters

SpecRepos == InitRepos /\ [][NextRepos]_vars

-----------------------------------------------------------------------------
(* C20: the pairs of the text come first                                   *)

Parsed == output.stage = "parsed"

\* the pairs of the text that no earlier pair equals ignoring case
FirstNamed ==
    {k \in 1..Len(input.pairs) :
        \A j \in 1..(k - 1) : Lower(input.pairs[j]) # Lower(input.pairs[k])}

\* the m-th of them, in order of appearance
NthNamed(m) ==
    CHOOSE k \in FirstNamed : Cardinality({j \in FirstNamed : j <= k}) = m

\* C20: for a text with one or more repo:OWNER/NAME tokens, the extracted
\* list begins with the pairs of the tokens in order of appearance (a pair
\* that repeats an earlier one ignoring case is left out), the entries
\* behind them come from the configured default repositories and the
\* configured single-repository URL, and no two entries of the list are
\* equal ignoring case.
C20_TextPairsFirst ==
    Parsed /\ input.pairs # <<>> =>
        LET n == Cardinality(FirstNamed)
            repos == output.repos
        IN  /\ Len(repos) >= n
            /\ \A m \in 1..n : repos[m] = input.pairs[NthNamed(m)]
            /\ \A m \in (n + 1)..Len(repos) :
                   \/ Contains(settings.GITHUB_DEFAULT_REPOS, repos[m])
                   \/ Contains(settings.GITHUB_REPO_URL, repos[m])
            /\ \A a, b \in 1..Len(repos) : a # b => Lower(repos[a]) # Lower(repos[b])

\* the text names other/x and acme/widgets, the defaults are other/x and
\* ACME/widgets and the URL is the one of Zed/Z: the list is the two pairs
\* of the text, then Zed/Z
C20_Witness ==
    /\ Parsed
    /\ input.pairs = <<"other/x", "acme/widgets">>
    /\ settings.GITHUB_DEFAULT_REPOS = "other/x, ACME/widgets"
    /\ settings.GITHUB_REPO_URL = "https://github.com/Zed/Z"
    /\ output.repos = <<"other/x", "acme/widgets", "Zed/Z">>

-----------------------------------------------------------------------------
(* The keyword extraction on its own: _extract_keywords is applied to a    *)
(* text made of the words input.words, in that order, with a separator     *)
(* that holds no letter, digit, hyphen or underscore between them.         *)

KeywordVocabulary == { "Show", "the", "permission", "Permission", "bugs", "ab", "login-page" }

KeywordSeparators == { " ", ", " }

\* the longest list of vocabulary words in a text
MaxWords == 3

\* the text of the specification's example, and a text with more words
\* that qualify than the limit
ExampleWords == <<"Show", "me", "all", "the", "permission", "issues", "and", "bugs">>
ManyWords == <<"Find", "login", "timeout", "errors", "login", "after", "password", "reset", "yesterday">>

KeywordWords ==
    { ExampleWords, ManyWords }
    \union UNION { [1..n -> KeywordVocabulary] : n \in 1..MaxWords }

\* _extract_keywords(user_message)
ExtractKeywords ==
    /\ output.stage = "start"
    /\ output' = [stage |-> "extracted", keywords |-> extract_keywords(input.user_message)]
    /\ UNCHANGED <<settings, cached, client, req, listed, writes, firstMap, input>>

InitKeywords ==
    /\ settings = Configured
    /\ cached = NotCached
    /\ client = [jira |-> "none", github |-> "none"]
    /\ req = [r \in Requests |-> IdleRequest]
    /\ listed = [jira |-> 0, github |-> 0]
    /\ writes = 0
    /\ firstMap = NotCached
    /\ \E words \in KeywordWords : \E sep \in KeywordSeparators :
           input = [user_message |-> Join(words, sep), words |-> words]
    /\ output = [stage |-> "start", keywords |-> <<>>]

NextKeywords == ExtractKeywords

SpecKeywords == InitKeywords /\ [][NextKeywords]_vars

-----------------------------------------------------------------------------
(* C21: the extracted keywords                                             *)

Extracted == output.stage = "extracted"

\* the words of the text that qualify and that no earlier word equals,
\* lower-cased
FirstQualifying ==
    {k \in 1..Len(input.words) :
        /\ Lower(input.words[k]) \notin stop
        /\ Len(input.words[k]) >= 3
        /\ \A j \in 1..(k - 1) : Lower(input.words[j]) # Lower(input.words[k])}

\* the m-th of them, in order of appearance
NthQualifying(m) ==
    CHOOSE k \in FirstQualifying : Cardinality({j \in FirstQualifying : j <= k}) = m

\* C21: keyword extraction returns a non-empty list of at most 5 pairwise
\* distinct lower-case tokens in first-seen order (the first 5 tokens of the
\* text that qualify), none of them a stopword or shorter than 3 characters,
\* or exactly the single default keyword when no token qualifies; the text
\* "Show me all the permission issues and bugs" yields permission, bugs.
C21_Keywords ==
    Extracted =>
        LET kw == output.keywords
            n == Min(5, Cardinality(FirstQualifying))
        IN  /\ Len(kw) >= 1 /\ Len(kw) <= 5
            /\ FirstQualifying = {} => kw = <<"permission">>
            /\ FirstQualifying # {} =>
                 /\ Len(kw) = n
                 /\ \A m \in 1..n : kw[m] = Lower(input.words[NthQualifying(m)])
                 /\ \A a, b \in 1..Len(kw) : a # b => kw[a] # kw[b]
                 /\ \A m \in 1..Len(kw) :
                        /\ kw[m] = Lower(kw[m])
                        /\ kw[m] \notin stop
                        /\ Len(kw[m]) >= 3
            /\ input.words = ExampleWords =>
                 /\ kw = <<"permission", "bugs">>
                 /\ \A w \in {"show", "me", "all", "the", "and", "issues"} : ~InSeq(w, kw)

\* a text with seven words that qualify, one of them twice: the first five
\* distinct ones are returned
C21_Witness ==
    /\ Extracted
    /\ input.words = ManyWords
    /\ output.keywords = <<"login", "timeout", "errors", "after", "password">>

\* a text without a word that qualifies yields the default keyword
C21_WitnessDefault ==
    /\ Extracted
    /\ input.words = <<"Show", "the", "ab">>
    /\ output.keywords = <<"permission">>

-----------------------------------------------------------------------------
(* The convenience wrappers of JiraMCPClient: search_issues, get_issue and *)
(* create_issue.  Each call of call_tool is one remote call whose outcome  *)
(* the server chooses; an error carries its message and, for the           *)
(* properties only, whether the server raised it because it does not know  *)
(* the tool.                                                               *)

Wrappers == { "search_issues", "get_issue", "create_issue" }

modern_name(wrapper) ==
    CASE wrapper = "search_issues" -> "jira_search"
      [] wrapper = "get_issue" -> "jira_get_issue"
      [] wrapper = "create_issue" -> "jira_create_issue"

legacy_name(wrapper) == wrapper

\* the arguments of the modern and of the legacy call, from the wrapper's
\* parameters p
modern_arguments(wrapper, p) ==
    CASE wrapper = "search_issues" -> <<KV("jql", p.jql), KV("limit", p.max_results)>>
      [] wrapper = "get_issue" -> <<KV("issue_key", p.key)>>
      [] wrapper = "create_issue" ->
            <<KV("project_key", p.project_key), KV("summary", p.summary),
              KV("description", p.description), KV("issue_type", p.issue_type)>>

legacy_arguments(wrapper, p) ==
    CASE wrapper = "search_issues" -> <<KV("jql", p.jql), KV("maxResults", p.max_results)>>
      [] wrapper = "get_issue" -> <<KV("key", p.key)>>
      [] wrapper = "create_issue" ->
            <<KV("projectKey", p.project_key), KV("summary", p.summary),
              KV("description", p.description), KV("issueType", p.issue_type)>>

\* the parameters the wrappers are called with
WrapperParameters ==
    << [jql |-> "project = DOBB", max_results |-> 50, key |-> "DOBB-1",
        project_key |-> "DOBB", summary |-> "Login fails",
        description |-> "Steps to reproduce", issue_type |-> "Task"],
       [jql |-> "text ~ login", max_results |-> 10, key |-> "DOBB-999",
        project_key |-> "OPS", summary |-> "Slow search",
        description |-> "", issue_type |-> "Bug"] >>

\* any(s in str(exc).lower() for s in ("unknown tool", "not found", "no such tool"))
fallback_phrases == { "unknown tool", "not found", "no such tool" }

wants_fallback(msg) == ContainsAny(Lower(msg), fallback_phrases)

ServerError(msg, unknown_tool) == [exc |-> TRUE, msg |-> msg, unknown_tool |-> unknown_tool]

ServerResult == [exc |-> FALSE, msg |-> "", unknown_tool |-> FALSE]

\* what the server can answer to a call of the tool name
ServerAnswers(name) ==
    { ServerResult,
      ServerError("Unknown tool: " \o name, TRUE),
      ServerError("Tool " \o name \o " not found", TRUE),
      ServerError("MCP error -32601: No such tool", TRUE),
      ServerError("Issue DOBB-999 not found", FALSE),
      ServerError("timed out", FALSE),
      ServerError("401 Unauthorized", FALSE) }

\* the first await of the wrapper: call_tool with the modern name ends
WrapperModernDone ==
    /\ output.pc = "modern"
    /\ \E a \in ServerAnswers(modern_name(input.wrapper)) :
          output' = [output EXCEPT
              !.calls = Append(@, [name |-> modern_name(input.wrapper),
                                   arguments |-> modern_arguments(input.wrapper, input.parameters),
                                   answer |-> a]),
              !.pc = IF a.exc /\ wants_fallback(a.msg) THEN "legacy" ELSE "done",
              !.result = IF a.exc THEN Raised(a.msg) ELSE Returned(JObject)]
    /\ UNCHANGED <<settings, cached, client, req, listed, writes, firstMap, input>>

\* the await in the except clause: call_tool with the legacy name ends
WrapperLegacyDone ==
    /\ output.pc = "legacy"
    /\ \E a \in ServerAnswers(legacy_name(input.wrapper)) :
          output' = [output EXCEPT
              !.calls = Append(@, [name |-> legacy_name(input.wrapper),
                                   arguments |-> legacy_arguments(input.wrapper, input.parameters),
                                   answer |-> a]),
              !.pc = "done",
              !.result = IF a.exc THEN Raised(a.msg) ELSE Returned(JObject)]
    /\ UNCHANGED <<settings, cached, client, req, listed, writes, firstMap, input>>

InitWrappers ==
    /\ settings = Configured
    /\ cached = NotCached
    /\ client = [jira |-> "ready", github |-> "none"]
    /\ req = [r \in Requests |-> IdleRequest]
    /\ listed = [jira |-> 0, github |-> 0]
    /\ writes = 0
    /\ firstMap = NotCached
    /\ \E w \in Wrappers : \E n \in 1..Len(WrapperParameters) :
           input = [wrapper |-> w, parameters |-> WrapperParameters[n]]
    /\ output = [pc |-> "modern", calls |-> <<>>, result |-> Raised("")]

NextWrappers == WrapperModernDone \/ WrapperLegacyDone

SpecWrappers == InitWrappers /\ [][NextWrappers]_vars

-----------------------------------------------------------------------------
(* C22: the legacy name is tried once, after an unknown-tool error         *)

WrapperDone == output.pc = "done"

\* C22: each wrapper calls the modern tool name first; it makes a second
\* call, with the legacy name, only when the first call raised an error
\* reporting the tool as unknown; it makes at most two remote calls; any
\* other error of the first call, and any error of the legacy call,
\* propagates to the caller.
C22_LegacyOnlyWhenUnknown ==
    WrapperDone =>
        LET calls == output.calls
        IN  /\ Len(calls) \in 1..2
            /\ calls[1].name = modern_name(input.wrapper)
            /\ Len(calls) = 2 =>
                  /\ calls[2].name = legacy_name(input.wrapper)
                  /\ calls[1].answer.exc
                  /\ calls[1].answer.unknown_tool
            /\ calls[1].answer.exc /\ ~calls[1].answer.unknown_tool =>
                  output.result = Raised(calls[1].answer.msg)
            /\ Len(calls) = 2 /\ calls[2].answer.exc =>
                  output.result = Raised(calls[2].answer.msg)

\* What the wrappers do: the second call is made exactly when the message
\* of the first error holds one of the three phrases, whatever the server
\* meant by it.
C22_LegacyWhenMessageMatches ==
    WrapperDone =>
        LET calls == output.calls
        IN  /\ Len(calls) \in 1..2
            /\ calls[1].name = modern_name(input.wrapper)
            /\ Len(calls) = 2 <=> calls[1].answer.exc /\ wants_fallback(calls[1].answer.msg)
            /\ Len(calls) = 2 => calls[2].name = legacy_name(input.wrapper)
            /\ calls[Len(calls)].answer.exc =>
                  output.result = Raised(calls[Len(calls)].answer.msg)

-----------------------------------------------------------------------------
(* The intent gate on its own: _needs_tools is applied to a text written   *)
(* around one word, input.word, in lower case or in capitals.              *)

\* the words the specification's trigger vocabulary names: those of the
\* source's list, with "wants" and "commit" as the two words they are
TriggerVocabulary ==
    (triggers \ {"wants" \o "commit"}) \union {"wants", "commit"}

\* words that are no trigger and hold none
OtherWords == { "hello", "refund", "weather" }

UpperChar(c) ==
    IF c \in LowerSet
    THEN CharAt(UpperChars, CHOOSE i \in 1..26 : CharAt(LowerChars, i) = c)
    ELSE c

RECURSIVE Capitals(_)
Capitals(s) ==
    IF Len(s) = 0 THEN ""
    ELSE IF Len(s) = 1 THEN UpperChar(s)
    ELSE Capitals(SubSeq(s, 1, Len(s) \div 2)) \o Capitals(SubSeq(s, Len(s) \div 2 + 1, Len(s)))

\* the texts written around the word w
GateTexts(w) ==
    { w, "show " \o w \o " abc1234", Capitals("show " \o w \o " abc1234"),
      "Show " \o Capitals(w) \o " now" }

\* _needs_tools(user_message)
NeedsTools ==
    /\ output.stage = "start"
    /\ output' = [stage |-> "gated", needs |-> needs_tools(input.user_message)]
    /\ UNCHANGED <<settings, cached, client, req, listed, writes, firstMap, input>>

InitGate ==
    /\ settings = Configured
    /\ cached = NotCached
    /\ client = [jira |-> "none", github |-> "none"]
    /\ req = [r \in Requests |-> IdleRequest]
    /\ listed = [jira |-> 0, github |-> 0]
    /\ writes = 0
    /\ firstMap = NotCached
    /\ \E w \in TriggerVocabulary \union OtherWords : \E text \in GateTexts(w) :
           input = [user_message |-> text, word |-> w]
    /\ output = [stage |-> "start", needs |-> FALSE]

NextGate == NeedsTools

SpecGate == InitGate /\ [][NextGate]_vars

-----------------------------------------------------------------------------
(* C23: a trigger word sends the message to the tools                      *)

Gated == output.stage = "gated"

\* C23: needsTools returns true for every text that contains, ignoring
\* case, a word of the trigger vocabulary as a substring, and in particular
\* for a text whose only trigger is the word 'commit' ('show commit
\* abc1234').
C23_TriggerWordNeedsTools ==
    Gated /\ input.word \in TriggerVocabulary => output.needs

\* What _needs_tools does: it returns true exactly for the texts that hold,
\* ignoring case, a literal of its list; "wants" "commit" is one literal of
\* that list, so that a text with 'commit' as its only trigger word gets
\* false.
C23_TriggerLiteralNeedsTools ==
    Gated =>
        /\ output.needs <=>
               \E t \in triggers : Contains(Lower(input.user_message), t)
        /\ input.word \in TriggerVocabulary \ {"commit"} => output.needs
        /\ input.word \in OtherWords \union {"commit"} => ~output.needs

-----------------------------------------------------------------------------
(* The unwrapping of a tool result on its own: _unwrap_mcp_result (and the *)
(* _unwrap_result of both clients, which repeat it) is applied to a plain  *)
(* value or to an envelope of one or two content items.                    *)

\* the texts of a content item with what json.loads makes of them
UnwrapTexts ==
    { [text |-> JNull, ok |-> FALSE, loads |-> JNull],
      [text |-> JStr("rate limited"), ok |-> FALSE, loads |-> JNull],
      [text |-> JStr(""), ok |-> FALSE, loads |-> JNull],
      [text |-> JStr("{\"issues\": []}"), ok |-> TRUE, loads |-> NoIssues],
      [text |-> JStr("[]"), ok |-> TRUE, loads |-> JList(<<>>)],
      [text |-> JStr("null"), ok |-> TRUE, loads |-> JNull] }

\* the json attributes of a content item: none, or structured content
UnwrapStructured == { JNull, OneIssue, JList(<<>>), JDict(<<>>) }

UnwrapItems ==
    { Item(t.text, t.ok, t.loads, j) : t \in UnwrapTexts, j \in UnwrapStructured }

\* the content items that may follow the first one
UnwrapSecondItems ==
    { Item(JStr("[]"), TRUE, JList(<<>>), JNull), Item(JNull, FALSE, JNull, OneIssue) }

UnwrapInputs ==
    { Plain(OneIssue), Plain(JList(<<>>)), Envelope(<<>>) }
    \union { Envelope(<<it>>) : it \in UnwrapItems }
    \union { Envelope(<<it, more>>) : it \in UnwrapItems, more \in UnwrapSecondItems }

\* _unwrap_mcp_result(call_result)
Unwrap ==
    /\ output.stage = "start"
    /\ output' = [stage |-> "unwrapped", value |-> unwrap_mcp_result(input.call_result)]
    /\ UNCHANGED <<settings, cached, client, req, listed, writes, firstMap, input>>

InitUnwrap ==
    /\ settings = Configured
    /\ cached = NotCached
    /\ client = [jira |-> "none", github |-> "none"]
    /\ req = [r \in Requests |-> IdleRequest]
    /\ listed = [jira |-> 0, github |-> 0]
    /\ writes = 0
    /\ firstMap = NotCached
    /\ \E call_result \in UnwrapInputs : input = [call_result |-> call_result]
    /\ output = [stage |-> "start", value |-> JNull]

NextUnwrap == Unwrap

SpecUnwrap == InitUnwrap /\ [][NextUnwrap]_vars

-----------------------------------------------------------------------------
(* C24: the order of the unwrapping                                        *)

Unwrapped == output.stage = "unwrapped"

\* the call result is an envelope with a first content item
HasFirstItem == ~input.call_result.plain /\ input.call_result.content # <<>>

\* C24: if the envelope's first content item carries text that parses as
\* JSON, the parsed value is returned; else if it carries native structured
\* (json) content, that is returned; only otherwise the raw text is
\* returned.  An item with non-JSON text and structured content unwraps to
\* the structured content.
C24_UnwrapOrder ==
    Unwrapped /\ HasFirstItem =>
        LET first_item == input.call_result.content[1]
        IN  IF IsStr(first_item.text) /\ first_item.loads.ok
            THEN output.value = first_item.loads.value
            ELSE IF first_item.json # JNull
            THEN output.value = first_item.json
            ELSE IsStr(first_item.text) => output.value = first_item.text

\* What the unwrapping does: the text of the first item decides whenever
\* the item has one (its parsed value, or the raw text when it does not
\* parse); the structured content is returned only for an item without
\* text; a plain list or dict is returned as it is.
C24_TextBeforeStructured ==
    Unwrapped =>
        IF input.call_result.plain THEN output.value = input.call_result.value
        ELSE IF ~HasFirstItem THEN output.value = JObject
        ELSE LET first_item == input.call_result.content[1]
             IN  IF IsStr(first_item.text)
                 THEN output.value = IF first_item.loads.ok THEN first_item.loads.value
                                     ELSE first_item.text
                 ELSE IF first_item.json # JNull
                 THEN output.value = first_item.json
                 ELSE output.value = JObject

-----------------------------------------------------------------------------
(* C25: the filter of the issue search                                     *)

\* the tasks of the issue-search branch: Jira tasks that carry a jql
JqlTasks == {k \in 1..Len(output.tasks) :
                output.tasks[k].provider = "jira" /\ Has(output.tasks[k].args, "jql")}

TypeClause == "issuetype in (\"Task\",\"Story\",\"Bug\",\"Epic\")"

\* (summary ~ "kw" OR description ~ "kw") for the keywords from the i-th
\* on, joined by OR
RECURSIVE KeywordClauses(_, _)
KeywordClauses(kws, i) ==
    "(summary ~ \"" \o kws[i] \o "\" OR description ~ \"" \o kws[i] \o "\")"
    \o IF i < Len(kws) THEN " OR " \o KeywordClauses(kws, i + 1) ELSE ""

Ordered(filter) == "(" \o filter \o ") ORDER BY updated DESC"

\* C25: in the issue-search branch the filter is the fixed clause
\* issuetype in ("Task","Story","Bug","Epic") when the message holds
\* 'all tasks', or holds 'tasks' and keyword extraction yields at most 2
\* keywords; otherwise it is the OR-joined disjunction of
\* (summary ~ kw OR description ~ kw) over the keywords; in both cases it is
\* wrapped in parentheses and followed by ORDER BY updated DESC.
C25_IssueSearchFilter ==
    Planned =>
        \A k \in JqlTasks :
            LET text == Lower(input.user_message)
                kws == extract_keywords(input.user_message)
            IN  Get(output.tasks[k].args, "jql") =
                    IF \/ Contains(text, "all tasks")
                       \/ Contains(text, "tasks") /\ Len(kws) <= 2
                    THEN Ordered(TypeClause)
                    ELSE Ordered(KeywordClauses(kws, 1))

\* 'tasks for login' has two keywords and the word tasks: the fixed clause;
\* the catalog lists a Jira search tool
C25_Witness ==
    /\ Planned
    /\ input.user_message = "tasks for login"
    /\ JqlTasks # {}
    /\ \A k \in JqlTasks :
          Get(output.tasks[k].args, "jql") =
              "(issuetype in (\"Task\",\"Story\",\"Bug\",\"Epic\")) ORDER BY updated DESC"

\* a message with the word tasks and four keywords gets the disjunction
C25_WitnessDisjunction ==
    /\ Planned
    /\ input.user_message = "tasks about login timeout errors"
    /\ JqlTasks # {}
    /\ \A k \in JqlTasks :
          Get(output.tasks[k].args, "jql") =
              "((summary ~ \"tasks\" OR description ~ \"tasks\")"
              \o " OR (summary ~ \"login\" OR description ~ \"login\")"
              \o " OR (summary ~ \"timeout\" OR description ~ \"timeout\")"
              \o " OR (summary ~ \"errors\" OR description ~ \"errors\"))"
              \o " ORDER BY updated DESC"

\* C25 as stated: the fixed clause whenever the message has 'all tasks'
\* phrasing or keyword extraction yields at most 2 keywords, whether or not
\* the word 'tasks' occurs.
C25_Original ==
    Planned =>
        \A k \in JqlTasks :
            LET text == Lower(input.user_message)
                kws == extract_keywords(input.user_message)
            IN  Get(output.tasks[k].args, "jql") =
                    IF Contains(text, "all tasks") \/ Len(kws) <= 2
                    THEN Ordered(TypeClause)
                    ELSE Ordered(KeywordClauses(kws, 1))

-----------------------------------------------------------------------------
(* The normalization of an issue-tracker payload on its own:               *)
(* _jira_issues_from_payload is applied to a payload of one of the         *)
(* accepted shapes, built around the issue objects input.issues.           *)

IssueObjects ==
    { JDict(<< KV("key", JStr("X-1")), KV("summary", JStr("S")), KV("self", JStr("http://x")) >>),
      JDict(<< KV("id", JStr("10002")), KV("fields", JDict(<< KV("summary", JStr("T")) >>)) >>),
      JDict(<< KV("key", JStr("X-3")), KV("description", JStr("D")) >>) }

\* the longest list of issue objects in a payload
MaxIssues == 3

IssueLists == UNION { [1..n -> IssueObjects] : n \in 0..MaxIssues }

JiraShapes == { "entries", "items", "issues", "issue", "bare" }

\* the payload of a shape around the issue objects
Shaped(shape, issues) ==
    CASE shape = "entries" ->
            JList(<< JDict(<< KV("total", JNum(Len(issues))), KV("issues", JList(issues)) >>) >>)
      [] shape = "items" ->
            JDict(<< KV("items", JList(<< JDict(<< KV("issues", JList(issues)) >>) >>)) >>)
      [] shape = "issues" -> JDict(<< KV("issues", JList(issues)) >>)
      [] shape = "issue" ->
            JDict(<< KV("message", JStr("created")), KV("issue", issues[1]) >>)
      [] shape = "bare" -> issues[1]

\* _jira_issues_from_payload(payload)
NormalizeJira ==
    /\ output.stage = "start"
    /\ output' = [stage |-> "normalized", records |-> jira_issues_from_payload(input.payload)]
    /\ UNCHANGED <<settings, cached, client, req, listed, writes, firstMap, input>>

InitNormalize ==
    /\ settings \in AggConfigurations
    /\ cached = NotCached
    /\ client = [jira |-> "none", github |-> "none"]
    /\ req = [r \in Requests |-> IdleRequest]
    /\ listed = [jira |-> 0, github |-> 0]
    /\ writes = 0
    /\ firstMap = NotCached
    /\ \E shape \in JiraShapes : \E issues \in IssueLists :
          /\ shape \in {"issue", "bare"} => Len(issues) = 1
          /\ input = [payload |-> Shaped(shape, issues), shape |-> shape, issues |-> issues]
    /\ output = [stage |-> "start", records |-> <<>>]

NextNormalize == NormalizeJira

SpecNormalize == InitNormalize /\ [][NextNormalize]_vars

-----------------------------------------------------------------------------
(* C26: the records of a wrapped payload                                   *)

Normalized == output.stage = "normalized"

\* C26: for each wrapped payload shape [ {issues:[...]} ],
\* {items:[{issues:[...]}]} and {issue:{...}}, the number of records added
\* to jira_issues equals the number of issue objects contained in the
\* payload: no record is created from the wrapper object itself.
C26_WrappedCounts ==
    Normalized /\ input.shape \in {"entries", "items", "issue"} =>
        /\ Len(output.records) = Len(input.issues)
        /\ output.records = NormalizeAll(input.issues)

\* What the normalization does: the records are those of the issue objects,
\* in order, for every shape but {items:[{issues:[...]}]}, where one more
\* record follows them, built from the wrapper object: it has neither id
\* nor key, an empty summary, description and url.
C26_ItemsAddsWrapper ==
    Normalized =>
        IF input.shape = "items"
        THEN /\ Len(output.records) = Len(input.issues) + 1
             /\ output.records =
                    Append(NormalizeAll(input.issues),
                           JDict(<< KV("id", JNull), KV("key", JNull), KV("summary", JStr("")),
                                    KV("description", JStr("")), KV("url", JStr("")) >>))
        ELSE output.records = NormalizeAll(input.issues)

-----------------------------------------------------------------------------
(* C27: malformed payloads                                                 *)

\* the payload of task i is neither a list nor an object
NeitherListNorObject(i) ==
    ~IsList(input.results[i].payload) /\ ~IsDict(input.results[i].payload)

\* C27: aggregate never raises, for any outcome payload: a payload that is
\* neither a list nor an object, and list or object payloads whose nested
\* entries are not objects, contribute zero records for the malformed
\* entries, and the aggregation of the remaining tasks continues.
C27_NeverRaises ==
    Aggregated =>
        /\ ~output.agg.raised
        /\ Len(output.acc.lines) = Len(input.tasks)
        /\ \A i \in Succeeded :
              NeitherListNorObject(i) \/ ListsNonDictIssue(i) => RecordsOf(i) = <<>>

\* What aggregate does with them: the normalization is type-guarded and
\* makes no record of a malformed payload, and a payload that is neither a
\* list nor an object does not stop the aggregation; the citation loop is
\* not guarded, and aggregate raises exactly when a successful payload
\* lists, as an issue, something that is not an object.
C27_RaisesOnNonDictIssue ==
    Aggregated =>
        /\ output.agg.raised <=> \E i \in Succeeded : ListsNonDictIssue(i)
        /\ ~output.agg.raised => Len(output.acc.lines) = Len(input.tasks)
        /\ \A i \in Succeeded :
              NeitherListNorObject(i) \/ ListsNonDictIssue(i) => RecordsOf(i) = <<>>

-----------------------------------------------------------------------------
(* C30: whose records a task cites                                         *)

\* the citations that the i-th pair added to sources
CitationsOf(i) ==
    SubSeq(AfterPairs(i).sources, Len(AfterPairs(i - 1).sources) + 1,
           Len(AfterPairs(i).sources))

\* the payload of task i clearly holds a list of issues
HoldsIssues(i) ==
    LET r == input.results[i].payload
    IN  \/ IsList(r) /\ r.l # <<>> /\ IsDict(r.l[1]) /\ IsList(JGet(r.l[1], "issues"))
        \/ IsDict(r) /\ IsList(JGet(r, "issues"))

\* what task i has of its own to cite: the issues its payload holds, else
\* the records normalized from its payload
OwnItems(i) ==
    LET r == input.results[i].payload
    IN  IF IsList(r) /\ r.l # <<>> /\ IsDict(r.l[1]) /\ IsList(JGet(r.l[1], "issues"))
        THEN JGet(r.l[1], "issues").l
        ELSE IF IsDict(r) /\ IsList(JGet(r, "issues")) THEN JGet(r, "issues").l
        ELSE RecordsOf(i)

\* the citations of the first five of the items
CitationsFor(items) ==
    [k \in 1..Min(5, Len(items)) |-> source_entry(k, items[k])]

\* C30: the citations that aggregate derives for a task come only from that
\* task's own payload or from records normalized from that task's payload;
\* a task never yields citations built from records that an earlier task
\* added to a bucket, and a task whose payload produced no records yields
\* no citations.
C30_OwnCitations ==
    Aggregated /\ ~output.agg.raised =>
        \A i \in Succeeded :
            /\ CitationsOf(i) = CitationsFor(OwnItems(i))
            /\ RecordsOf(i) = <<>> /\ ~HoldsIssues(i) => CitationsOf(i) = <<>>

\* What aggregate does: a task whose payload holds a list of issues cites
\* those; any other task cites the first five records of its provider's
\* bucket as it stands after the task, the records of earlier tasks
\* included and first (for GitHub the first non-empty bucket of issues,
\* repositories, commits), so that a task without a record of its own
\* repeats the citations of an earlier task.
C30_BucketCitations ==
    Aggregated /\ ~output.agg.raised =>
        \A i \in Succeeded :
            \/ CitationsOf(i) = CitationsFor(OwnItems(i))
            \/ /\ ~HoldsIssues(i)
               /\ \E j \in Succeeded :
                     /\ j < i
                     /\ input.tasks[j].provider = input.tasks[i].provider
                     /\ RecordsOf(j) # <<>>
                     /\ CitationsOf(i)[1] = CitationsFor(RecordsOf(j))[1]

-----------------------------------------------------------------------------
(* The GitHub issue/PR search from plan to buckets: a message is planned   *)
(* against a catalog whose GitHub search tool goes by one of the names the *)
(* planner resolves, the planned tasks succeed, the search task with a     *)
(* payload around the objects input.objects, and the outcomes are          *)
(* aggregated.                                                             *)

SearchToolNames ==
    { "search_issues", "searchIssues", "search_pull_requests", "searchPullRequests",
      "issue_search" }

\* the GitHub catalog with the search tool of that name
SearchCatalog(name) ==
    [jira |-> <<>>,
     github |-> << Tool("get_me", "The authenticated user", NoSchema),
                   Tool(name, "Search issues and pull requests", NoSchema) >>]

SearchMessages == { "list issues about login", "only github pull requests for login timeout" }

SearchObjects ==
    { JDict(<< KV("id", JNum(1)), KV("number", JNum(7)), KV("title", JStr("Fix login")),
               KV("state", JStr("open")), KV("html_url", JStr("https://github.com/acme/widgets/issues/7")),
               KV("url", JStr("https://api.github.com/repos/acme/widgets/issues/7")) >>),
      JDict(<< KV("number", JNum(8)), KV("title", JStr("Timeout")),
               KV("url", JStr("https://api.github.com/repos/acme/widgets/issues/8")) >>) }

\* the longest list of objects in a search payload
MaxObjects == 2

SearchLists == UNION { [1..n -> SearchObjects] : n \in 0..MaxObjects }

SearchShapes == { "items", "list" }

SearchPayload(shape, objects) ==
    IF shape = "items"
    THEN JDict(<< KV("total_count", JNum(Len(objects))), KV("items", JList(objects)) >>)
    ELSE JList(objects)

\* _plan(user_message, available_tools)
PlanSearch ==
    /\ output.stage = "start"
    /\ output' = [output EXCEPT !.stage = "planned",
                                !.tasks = plan(input.user_message, input.available_tools)]
    /\ UNCHANGED <<settings, cached, client, req, listed, writes, firstMap, input>>

\* _execute returns the payload for every task; _aggregate(tasks, results)
AggregateSearch ==
    /\ output.stage = "planned"
    /\ LET results == [k \in 1..Len(output.tasks) |-> Returned(input.payload)]
       IN  output' = [output EXCEPT !.stage = "aggregated",
                                    !.results = results,
                                    !.acc = aggregate_state(output.tasks, results)]
    /\ UNCHANGED <<settings, cached, client, req, listed, writes, firstMap, input>>

InitSearch ==
    /\ settings = Configured
    /\ cached = NotCached
    /\ client = [jira |-> "none", github |-> "none"]
    /\ req = [r \in Requests |-> IdleRequest]
    /\ listed = [jira |-> 0, github |-> 0]
    /\ writes = 0
    /\ firstMap = NotCached
    /\ \E m \in SearchMessages : \E name \in SearchToolNames :
       \E shape \in SearchShapes : \E objects \in SearchLists :
          input = [user_message |-> m, available_tools |-> SearchCatalog(name),
                   name |-> name, objects |-> objects,
                   payload |-> SearchPayload(shape, objects)]
    /\ output = [stage |-> "start", tasks |-> <<>>, results |-> <<>>,
                 acc |-> [lines |-> <<>>, sources |-> <<>>, structured |-> <<>>,
                          raised |-> FALSE]]

NextSearch == PlanSearch \/ AggregateSearch

SpecSearch == InitSearch /\ [][NextSearch]_vars

-----------------------------------------------------------------------------
(* C28: the records of a GitHub issue/PR search                            *)

SearchAggregated == output.stage = "aggregated"

\* the plan is the one task of the issue/PR search branch, under the name
\* of the catalog's search tool
SearchPlanned ==
    /\ Len(output.tasks) = 1
    /\ output.tasks[1].provider = "github"
    /\ output.tasks[1].tool = input.name
    /\ Has(output.tasks[1].args, "query")

\* C28: every successful task planned by the issue/PR search branch whose
\* payload is {items:[...]} or a bare list of n objects adds n records to
\* the github_issues bucket, for every tool name that branch can resolve to
\* (search_issues, searchIssues, search_pull_requests, searchPullRequests,
\* or a token-matched tool).
C28_SearchRecords ==
    SearchAggregated =>
        /\ SearchPlanned
        /\ Len(Bucket(output.acc.structured, "github_issues")) = Len(input.objects)

\* What plan and aggregate do: every one of the names is planned, but the
\* aggregator fills github_issues only for a tool whose lower-cased name
\* holds "search_issues"; under the other names the payload adds no record
\* to any bucket and no citation.
C28_SearchIssuesNameOnly ==
    SearchAggregated =>
        /\ SearchPlanned
        /\ IF Contains(Lower(input.name), "search_issues")
           THEN Len(Bucket(output.acc.structured, "github_issues")) = Len(input.objects)
           ELSE output.acc.structured = <<>> /\ output.acc.sources = <<>>

-----------------------------------------------------------------------------
(* C29: the lazy client of a provider                                      *)

\* the callers that are awaiting create_all_sessions of the provider's
\* client: list_tools of a request, or one of its calls
Establishing(provider) ==
    { <<r, 0>> : r \in {q \in Requests : req[q].pc = provider \o "_create"} }
    \union
    { c \in Requests \X (1..MaxTasks) :
        /\ c[2] <= Len(req[c[1]].calls)
        /\ req[c[1]].calls[c[2]].provider = provider
        /\ req[c[1]].calls[c[2]].state = "creating" }

\* list_tools of request r gets the provider's client in this step
ObtainsClient(r, provider) ==
    /\ ("provider:" \o provider) \notin req[r].did
    /\ ("provider:" \o provider) \in req'[r].did

\* the client is established at most once at a time, and a client whose
\* sessions are not established is one that somebody is establishing
EstablishedOnce ==
    \A provider \in Providers :
        /\ Cardinality(Establishing(provider)) <= 1
        /\ client[provider] = "unready" => Establishing(provider) # {}

\* no caller is handed a client whose sessions are not established
NoEarlyClient ==
    \A r \in Requests : \A provider \in Providers :
        ObtainsClient(r, provider) => client[provider] # "unready"

\* C29: the 'ensure client' step of each provider client establishes the
\* session at most once, and under any interleaving of concurrent callers
\* no caller obtains a client before create_all_sessions has completed;
\* after a failed session establishment the client is not left cached as
\* if established.
C29_EnsureClient == []EstablishedOnce /\ [][NoEarlyClient]_vars

\* What _ensure_client does: it stores the client before it awaits
\* create_all_sessions, so that at most one caller establishes the
\* sessions, and never a second time.
C29_OneEstablishing ==
    \A provider \in Providers : Cardinality(Establishing(provider)) <= 1

====
